---------------------------- MODULE Spec2Model ----------------------------
(***************************************************************************)
(* Model of the fricu HTTP key-value server (src/server): the request      *)
(* parser and dispatcher (http.c), its helpers (util.c), the store         *)
(* bootstrap and the per-worker store handle (db.c), the worker event      *)
(* loop (event_loop.c) and the configuration and start of the workers      *)
(* (main.c).                                                               *)
(*                                                                         *)
(* Bytes are one-character strings and byte strings are TLA+ strings.  A   *)
(* client's byte stream is a record [pre, fill, post]: the bytes of pre,   *)
(* then fill copies of the byte "a", then the bytes of post, so that       *)
(* streams of 64 KiB are written down and scanned without enumerating the  *)
(* filler.  The byte 0x00 cannot be written in a TLA+ string and is        *)
(* written NUL below.                                                      *)
(*                                                                         *)
(* What the program cannot control is a choice of the model: the order in  *)
(* which clients, segments and workers take their steps, a store step or   *)
(* an allocation that fails, a peer that hangs up.  Spec runs clients on   *)
(* several connections at once, SpecWire runs them one after the other     *)
(* with every request of the catalog, SpecBusy runs /health requests next  *)
(* to requests that use the store, and SpecMain runs main() alone over the *)
(* values of its environment.                                              *)
(***************************************************************************)
EXTENDS Integers, Sequences, FiniteSets, TLC

VARIABLES
    store,      \* kv_store: a function from the data_key of each row to its data_value
    phase,      \* "boot" before init_db has run, "serve" after
    sock,       \* per client connection: the kernel's view of the socket
    fdtab,      \* the process's descriptor table: descriptor -> connection, 0 when free
    conns,      \* per worker: the slot array conns[fd], NoConn when NULL
    wpc,        \* per worker: where it is in run_worker_loop
    last,       \* the event of the step that led here, NoEvent when it handled no request
    lastPut,    \* per key: the PUTs answered 204 so far (see NoPut)
    env,        \* the clients of this run: the requests they choose from, how many at once
    sup,        \* main(): where it is, the configured worker count, the workers started
    snd,        \* send_response: the response being written and how far the writer is
    qfd         \* the event queues: the events queue_wait returned that are yet to be
                \* handled, per worker, and the worker each open descriptor was accepted by

vars == <<store, phase, env, sup, snd, qfd, sock, fdtab, conns, wpc, last, lastPut>>

---------------------------------------------------------------------------
(* Sizes of the program.                                                   *)

REQ_BUF_SIZE == 65536
CONN_INIT_BUF == 8192
INT_MAX == 2147483647

(* Bounds of the model.                                                    *)

NumWorkers == 2
MaxConns == 2
MaxIntr == 2        \* the interrupted sends of one response
SendPiece == 40     \* the bytes a send takes when it does not take all

Min(a, b) == IF a <= b THEN a ELSE b
Max(a, b) == IF a >= b THEN a ELSE b
MinOf(S) == CHOOSE x \in S : \A y \in S : x <= y

---------------------------------------------------------------------------
(* Bytes and byte streams.                                                 *)

NUL == "@"
FILL == "a"
CRLF == "\r\n"
CRLFCRLF == "\r\n\r\n"

\* isspace() in the "C" locale, over the bytes a TLA+ string can hold.
IsSpace(b) == b \in {" ", "\t", "\n", "\r", "\f"}
IsDigit(b) == b \in {"0", "1", "2", "3", "4", "5", "6", "7", "8", "9"}
DigitVal(b) ==
    CASE b = "0" -> 0 [] b = "1" -> 1 [] b = "2" -> 2 [] b = "3" -> 3
      [] b = "4" -> 4 [] b = "5" -> 5 [] b = "6" -> 6 [] b = "7" -> 7
      [] b = "8" -> 8 [] b = "9" -> 9

\* tolower() on the letters of "Content-Length:" in either case.
ToLower(b) ==
    CASE b = "C" -> "c" [] b = "O" -> "o" [] b = "N" -> "n" [] b = "T" -> "t"
      [] b = "E" -> "e" [] b = "L" -> "l" [] b = "G" -> "g" [] b = "H" -> "h"
      [] OTHER -> b

Wire(pre, fill, post) == [pre |-> pre, fill |-> fill, post |-> post]
WLen(w) == Len(w.pre) + w.fill + Len(w.post)
FillLo(w) == Len(w.pre) + 1
FillHi(w) == Len(w.pre) + w.fill

\* The i-th byte of the stream, 1 <= i <= WLen(w).
ByteAt(w, i) ==
    IF i <= Len(w.pre) THEN SubSeq(w.pre, i, i)
    ELSE IF i <= FillHi(w) THEN FILL
    ELSE SubSeq(w.post, i - FillHi(w), i - FillHi(w))

RECURSIVE Rep(_, _)
Rep(b, k) ==
    IF k <= 0 THEN ""
    ELSE LET h == Rep(b, k \div 2)
         IN  IF k % 2 = 0 THEN h \o h ELSE h \o h \o b

\* The bytes i .. j of the stream as a byte string.
Sub(w, i, j) ==
    IF j < i THEN ""
    ELSE SubSeq(w.pre, Min(i, FillLo(w)), Min(j, Len(w.pre)))
         \o Rep(FILL, Min(j, FillHi(w)) - Max(i, FillLo(w)) + 1)
         \o SubSeq(w.post, Max(i, FillHi(w) + 1) - FillHi(w), j - FillHi(w))

\* The indices in from .. to that are not filler, and the first filler index
\* in that range: every scan below stops at one of these or not at all.
Probe(w, from, to) ==
    (from .. Min(to, Len(w.pre)))
        \cup (Max(from, FillHi(w) + 1) .. to)
        \cup (IF w.fill > 0 /\ Max(from, FillLo(w)) <= Min(to, FillHi(w))
              THEN {Max(from, FillLo(w))} ELSE {})

\* The least index in from .. to whose byte is b / starts the string s, 0 if none.
FirstSpace(w, from, to) ==
    LET S == {i \in Probe(w, from, to) : IsSpace(ByteAt(w, i))}
    IN  IF S = {} THEN 0 ELSE MinOf(S)
FirstNonSpace(w, from, to) ==
    LET S == {i \in Probe(w, from, to) : ~IsSpace(ByteAt(w, i))}
    IN  IF S = {} THEN 0 ELSE MinOf(S)

\* strlen(buf) once buf[n] = '\0' has been written: the bytes before the first NUL.
CLen(w, n) ==
    LET S == {i \in Probe(w, 1, n) : ByteAt(w, i) = NUL}
    IN  IF S = {} THEN n ELSE MinOf(S) - 1

\* strstr(buf + from - 1, s) in a buffer whose C string has n bytes: the index
\* of the first occurrence at or after from, 0 for NULL.
StrStr(w, from, n, s) ==
    LET S == {i \in Probe(w, from, n - Len(s) + 1) : Sub(w, i, i + Len(s) - 1) = s}
    IN  IF S = {} THEN 0 ELSE MinOf(S)

\* The C string held in a byte string: what strlen, strcmp and a bind with
\* length -1 see of it.
CStr(s) ==
    LET nul == {i \in 1 .. Len(s) : SubSeq(s, i, i) = NUL}
    IN  IF nul = {} THEN s ELSE SubSeq(s, 1, MinOf(nul) - 1)

---------------------------------------------------------------------------
(* util.c                                                                  *)

DATA_KEYS ==
    << "activities", "activity_metric_insights", "meal_plans", "custom_foods",
       "workouts", "events", "profile", "lactate_history_records" >>
DATA_KEYS_COUNT == Len(DATA_KEYS)
KeySet == {DATA_KEYS[i] : i \in 1 .. DATA_KEYS_COUNT}

\* is_valid_key comparing only the strlen(key) first bytes of each entry.
is_valid_key_prefix(key) ==
    \E i \in 1 .. DATA_KEYS_COUNT :
        Len(DATA_KEYS[i]) >= Len(key) /\ SubSeq(DATA_KEYS[i], 1, Len(key)) = key

\* is_valid_key(key): strcmp against each entry of DATA_KEYS.
is_valid_key(key) ==
    \E i \in 1 .. DATA_KEYS_COUNT : DATA_KEYS[i] = key

\* An int of the C program as two 16-bit limbs, hi * 65536 + lo, read as a
\* two's complement 32-bit value.
Signed32(hi, lo) ==
    IF hi < 32768 THEN hi * 65536 + lo ELSE (hi - 65536) * 65536 + lo
Neg32(hi, lo) ==
    IF hi = 0 /\ lo = 0 THEN Signed32(0, 0)
    ELSE Signed32((65535 - hi + (IF lo = 0 THEN 1 ELSE 0)) % 65536, (65536 - lo) % 65536)

\* The digits of atoi's argument from index i on, accumulated modulo 2^32;
\* ovf is set once the number read no longer fits 32 bits.
RECURSIVE AtoiDigits(_, _, _, _)
AtoiDigits(w, i, n, acc) ==
    IF i > n \/ ~IsDigit(ByteAt(w, i)) THEN acc
    ELSE LET lo10 == 10 * acc.lo + DigitVal(ByteAt(w, i))
             hi10 == 10 * acc.hi + (lo10 \div 65536)
         IN  AtoiDigits(w, i + 1, n,
                        [hi |-> hi10 % 65536, lo |-> lo10 % 65536,
                         ovf |-> acc.ovf \/ hi10 >= 65536])

\* atoi(buf + from - 1) on a C string of n bytes: white space, an optional
\* sign, digits.  A number an int cannot hold is undefined behaviour: the
\* libraries in use return its low 32 bits ((int) strtol) or saturate.
atoi(w, from, n) ==
    LET p    == FirstNonSpace(w, from, n)
        sgn  == IF p # 0 /\ ByteAt(w, p) \in {"-", "+"} THEN ByteAt(w, p) ELSE ""
        d    == IF p = 0 THEN n + 1 ELSE IF sgn = "" THEN p ELSE p + 1
        a    == AtoiDigits(w, d, n, [hi |-> 0, lo |-> 0, ovf |-> FALSE])
        fits == ~a.ovf /\ (a.hi < 32768 \/ (sgn = "-" /\ a.hi = 32768 /\ a.lo = 0))
        wrap == IF sgn = "-" THEN Neg32(a.hi, a.lo) ELSE Signed32(a.hi, a.lo)
    IN  IF fits THEN {wrap}
        ELSE {wrap, IF sgn = "-" THEN -INT_MAX - 1 ELSE INT_MAX}

\* The bytes "%127[^:]" takes from the head of t: those before the first
\* colon, 127 of them at most.
HostSpan(t) ==
    MinOf({k \in 0 .. Min(Len(t), 127) :
              k = Len(t) \/ k = 127 \/ SubSeq(t, k + 1, k + 1) = ":"})

\* sscanf(bind_addr_str, "%127[^:]:%d", host, port): the count of converted
\* fields with host and port as the call leaves them.  %d reads as atoi does
\* but fails when no digit follows the white space and sign.
sscanf_bind(t, host, port) ==
    LET k == HostSpan(t)
        w == Wire(t, 0, "")
        p == FirstNonSpace(w, k + 2, Len(t))
        d == IF p # 0 /\ ByteAt(w, p) \in {"-", "+"} THEN p + 1 ELSE p
    IN  IF k = 0 THEN {[count |-> 0, host |-> host, port |-> port]}
        ELSE IF k = Len(t) \/ SubSeq(t, k + 1, k + 1) # ":" \/ p = 0 \/ d > Len(t) \/ ~IsDigit(ByteAt(w, d))
             THEN {[count |-> 1, host |-> SubSeq(t, 1, k), port |-> port]}
        ELSE {[count |-> 2, host |-> SubSeq(t, 1, k), port |-> v] : v \in atoi(w, k + 2, Len(t))}

\* parse_bind_addr(bind_addr_str, host, host_len, port): the return value
\* with host and port as the call leaves them.
parse_bind_addr(bind_addr_str, host, host_len, port) ==
    {[ret  |-> IF \/ r.count # 2
                  \/ r.port <= 0 \/ r.port > 65535
                  \/ Len(r.host) = 0 \/ Len(r.host) >= host_len
               THEN -1 ELSE 0,
      host |-> r.host, port |-> r.port] : r \in sscanf_bind(bind_addr_str, host, port)}

\* strncasecmp(buf + i - 1, "Content-Length:", 15) == 0
RECURSIVE LowerStr(_)
LowerStr(s) ==
    IF s = "" THEN "" ELSE ToLower(SubSeq(s, 1, 1)) \o LowerStr(SubSeq(s, 2, Len(s)))
IsContentLengthLine(w, i) == LowerStr(Sub(w, i, i + 14)) = "content-length:"

\* The while loop of read_content_length from the line that starts at index
\* line; he is the index header_end points at, n the length of the C string.
RECURSIVE ReadClLines(_, _, _, _)
ReadClLines(w, line, he, n) ==
    IF line >= he THEN {0}
    ELSE LET line_end == StrStr(w, line, n, CRLF)
         IN  IF line_end = 0 \/ line_end > he THEN {0}
             ELSE IF line_end - line >= 15 /\ IsContentLengthLine(w, line)
                  THEN atoi(w, line + 15, n)
             ELSE ReadClLines(w, line_end + 2, he, n)

\* read_content_length(req, header_end): the set of values it can return.
read_content_length(w, he, n) ==
    LET first == StrStr(w, 1, n, CRLF)
    IN  IF first = 0 THEN {0} ELSE ReadClLines(w, first + 2, he, n)

---------------------------------------------------------------------------
(* http.c                                                                  *)

DigitChar(d) == SubSeq("0123456789", d + 1, d + 1)
\* printf's %d and %zu of a number >= 0.
RECURSIVE Dec(_)
Dec(k) == IF k < 10 THEN DigitChar(k) ELSE Dec(k \div 10) \o DigitChar(k % 10)

\* send_response with sizeof-like counting of the body: the terminating NUL is
\* counted in Content-Length.
send_response_counting_nul(code, status, body) ==
    LET body_len == Len(CStr(body))
    IN  [code   |-> code,
         header |-> "HTTP/1.1 " \o Dec(code) \o " " \o status \o "\r\n"
                    \o "Content-Type: application/json\r\n"
                    \o "Content-Length: " \o Dec(body_len + 1) \o "\r\n"
                    \o "Connection: close\r\n\r\n",
         body   |-> SubSeq(body, 1, body_len)]

\* send_response(fd, code, status, body) with every send succeeding: the header
\* snprintf formats, then the strlen(body) bytes of the body.
send_response(code, status, body) ==
    LET body_len == Len(CStr(body))
    IN  [code   |-> code,
         header |-> "HTTP/1.1 " \o Dec(code) \o " " \o status \o "\r\n"
                    \o "Content-Type: application/json\r\n"
                    \o "Content-Length: " \o Dec(body_len) \o "\r\n"
                    \o "Connection: close\r\n\r\n",
         body   |-> SubSeq(body, 1, body_len)]

\* The texts SQLite's json_valid() accepts among the payloads of the model:
\* anything else it rejects.
JsonTexts ==
    { "{}", "[]", "[1]", "1", "{\"n\":1}", "{\"name\":\"ada\"}", "[{\"sport\":\"run\"}]" }

\* json_is_valid(db, json): SELECT json_valid(?1), the text bound with length -1.
json_is_valid(json) == IF CStr(json) \in JsonTexts THEN 1 ELSE 0

DefaultJson(key) == IF key = "profile" THEN "{}" ELSE "[]"

\* handle_get_data: stepFails when sqlite3_step returns neither SQLITE_ROW nor
\* SQLITE_DONE (the store stayed busy, an I/O error).
handle_get_data(st, key, stepFails) ==
    IF ~stepFails /\ key \in DOMAIN st
    THEN send_response(200, "OK", st[key])
    ELSE send_response(200, "OK", DefaultJson(key))

\* The upsert statement without its ON CONFLICT clause taking effect: the row
\* that exists is kept.
UpsertKeepingRow(st, key, value) ==
    IF key \in DOMAIN st THEN st
    ELSE [k \in DOMAIN st \cup {key} |-> IF k = key THEN value ELSE st[k]]

\* The upsert statement appending to the row that exists instead of replacing it.
UpsertAppending(st, key, value) ==
    [k \in DOMAIN st \cup {key} |->
        IF k # key THEN st[k] ELSE IF key \in DOMAIN st THEN st[key] \o value ELSE value]

\* The upsert statement of worker_db_open: INSERT ... ON CONFLICT(data_key) DO
\* UPDATE SET data_value = excluded.data_value.
Upsert(st, key, value) ==
    [k \in DOMAIN st \cup {key} |-> IF k = key THEN value ELSE st[k]]

\* handle_put_data without the json_is_valid test.
handle_put_unchecked(st, key, payload, stepFails) ==
    IF stepFails
    THEN [store |-> st,
          resp  |-> send_response(500, "Internal Server Error", "{\"error\":\"database error\"}")]
    ELSE [store |-> Upsert(st, key, CStr(payload)),
          resp  |-> send_response(204, "No Content", "")]

\* handle_put_data with the row written before the failure of the step is seen.
handle_put_written_on_failure(st, key, payload, stepFails) ==
    IF json_is_valid(payload) = 0
    THEN [store |-> st,
          resp  |-> send_response(400, "Bad Request", "{\"error\":\"invalid json payload\"}")]
    ELSE IF stepFails
    THEN [store |-> Upsert(st, key, CStr(payload)),
          resp  |-> send_response(500, "Internal Server Error", "{\"error\":\"database error\"}")]
    ELSE [store |-> Upsert(st, key, CStr(payload)),
          resp  |-> send_response(204, "No Content", "")]

\* handle_put_data: the store after it and the response it sends.  The
\* json_valid statement reads no table, its step returns a row.
handle_put_data(st, key, payload, stepFails) ==
    IF json_is_valid(payload) = 0
    THEN [store |-> st,
          resp  |-> send_response(400, "Bad Request", "{\"error\":\"invalid json payload\"}")]
    ELSE IF stepFails
    THEN [store |-> st,
          resp  |-> send_response(500, "Internal Server Error", "{\"error\":\"database error\"}")]
    ELSE [store |-> Upsert(st, key, CStr(payload)),
          resp  |-> send_response(204, "No Content", "")]

\* sscanf(conn->buf, "%7s %511s", method, path) on a C string of n bytes.
sscanf_line(w, n) ==
    LET p1 == FirstNonSpace(w, 1, n)
        s1 == IF p1 = 0 THEN 0 ELSE FirstSpace(w, p1, n)
        e1 == IF p1 = 0 THEN 0 ELSE Min(p1 + 7, IF s1 = 0 THEN n + 1 ELSE s1)
        p2 == IF p1 = 0 THEN 0 ELSE FirstNonSpace(w, e1, n)
        s2 == IF p2 = 0 THEN 0 ELSE FirstSpace(w, p2, n)
        e2 == IF p2 = 0 THEN 0 ELSE Min(p2 + 511, IF s2 = 0 THEN n + 1 ELSE s2)
    IN  [count  |-> IF p1 = 0 THEN -1 ELSE IF p2 = 0 THEN 1 ELSE 2,
         method |-> IF p1 = 0 THEN "" ELSE Sub(w, p1, e1 - 1),
         path   |-> IF p2 = 0 THEN "" ELSE Sub(w, p2, e2 - 1)]

PREFIX == "/v1/data/"
\* strncmp(s, prefix, strlen(prefix)) == 0
StartsWith(s, prefix) ==
    Len(s) >= Len(prefix) /\ SubSeq(s, 1, Len(prefix)) = prefix

\* What one call of try_process_client decides: its return value (done) and
\* either nothing (op "none"), a response it sends itself (op "resp"), or a
\* call of handle_get_data or handle_put_data (op "get", "put").
Decision(done, op, resp, key, payload) ==
    [done |-> done, op |-> op, resp |-> resp, key |-> key, payload |-> payload]
NoResp == [code |-> 0, header |-> "", body |-> ""]
Reply(code, status, body) == Decision(1, "resp", send_response(code, status, body), "", "")

\* try_process_client without the /health rule.
try_process_client_no_health(w, len, cl) ==
    LET n          == CLen(w, len)
        header_end == StrStr(w, 1, n, CRLFCRLF)
        header_len == header_end - 1 + 4
        line       == sscanf_line(w, n)
        method     == line.method
        path       == line.path
        key        == SubSeq(path, Len(PREFIX) + 1, Len(path))
    IN  IF header_end = 0 THEN Decision(0, "none", NoResp, "", "")
        ELSE IF line.count # 2
        THEN Reply(400, "Bad Request", "{\"error\":\"malformed request line\"}")
        ELSE IF ~StartsWith(path, PREFIX)
        THEN Reply(404, "Not Found", "{\"error\":\"not found\"}")
        ELSE IF ~is_valid_key(key)
        THEN Reply(404, "Not Found", "{\"error\":\"unknown key\"}")
        ELSE IF method = "GET" THEN Decision(1, "get", NoResp, key, "")
        ELSE IF method = "PUT"
        THEN IF cl < 0 \/ cl > REQ_BUF_SIZE - header_len
             THEN Reply(400, "Bad Request", "{\"error\":\"invalid content length\"}")
             ELSE IF cl > len - header_len THEN Decision(0, "none", NoResp, "", "")
             ELSE Decision(1, "put", NoResp, key, Sub(w, header_len + 1, header_len + cl))
        ELSE Reply(405, "Method Not Allowed", "{\"error\":\"method not allowed\"}")

\* try_process_client testing the method before the key.
try_process_client_method_first(w, len, cl) ==
    LET n          == CLen(w, len)
        header_end == StrStr(w, 1, n, CRLFCRLF)
        header_len == header_end - 1 + 4
        line       == sscanf_line(w, n)
        method     == line.method
        path       == line.path
        key        == SubSeq(path, Len(PREFIX) + 1, Len(path))
    IN  IF header_end = 0 THEN Decision(0, "none", NoResp, "", "")
        ELSE IF line.count # 2
        THEN Reply(400, "Bad Request", "{\"error\":\"malformed request line\"}")
        ELSE IF path = "/health" /\ method = "GET"
        THEN Reply(200, "OK", "{\"status\":\"ok\"}")
        ELSE IF ~StartsWith(path, PREFIX)
        THEN Reply(404, "Not Found", "{\"error\":\"not found\"}")
        ELSE IF method \notin {"GET", "PUT"}
        THEN Reply(405, "Method Not Allowed", "{\"error\":\"method not allowed\"}")
        ELSE IF ~is_valid_key(key)
        THEN Reply(404, "Not Found", "{\"error\":\"unknown key\"}")
        ELSE IF method = "GET" THEN Decision(1, "get", NoResp, key, "")
        ELSE IF method = "PUT"
        THEN IF cl < 0 \/ cl > REQ_BUF_SIZE - header_len
             THEN Reply(400, "Bad Request", "{\"error\":\"invalid content length\"}")
             ELSE IF cl > len - header_len THEN Decision(0, "none", NoResp, "", "")
             ELSE Decision(1, "put", NoResp, key, Sub(w, header_len + 1, header_len + cl))
        ELSE Reply(405, "Method Not Allowed", "{\"error\":\"method not allowed\"}")

\* try_process_client on a buffer holding the first len bytes of the stream w;
\* cl is the value read_content_length returns when it is called.
try_process_client(w, len, cl) ==
    LET n          == CLen(w, len)
        header_end == StrStr(w, 1, n, CRLFCRLF)
        header_len == header_end - 1 + 4
        line       == sscanf_line(w, n)
        method     == line.method
        path       == line.path
        key        == SubSeq(path, Len(PREFIX) + 1, Len(path))
    IN  IF header_end = 0 THEN Decision(0, "none", NoResp, "", "")
        ELSE IF line.count # 2
        THEN Reply(400, "Bad Request", "{\"error\":\"malformed request line\"}")
        ELSE IF path = "/health" /\ method = "GET"
        THEN Reply(200, "OK", "{\"status\":\"ok\"}")
        ELSE IF ~StartsWith(path, PREFIX)
        THEN Reply(404, "Not Found", "{\"error\":\"not found\"}")
        ELSE IF ~is_valid_key(key)
        THEN Reply(404, "Not Found", "{\"error\":\"unknown key\"}")
        ELSE IF method = "GET" THEN Decision(1, "get", NoResp, key, "")
        ELSE IF method = "PUT"
        THEN IF cl < 0 \/ cl > REQ_BUF_SIZE - header_len
             THEN Reply(400, "Bad Request", "{\"error\":\"invalid content length\"}")
             ELSE IF cl > len - header_len THEN Decision(0, "none", NoResp, "", "")
             ELSE Decision(1, "put", NoResp, key, Sub(w, header_len + 1, header_len + cl))
        ELSE Reply(405, "Method Not Allowed", "{\"error\":\"method not allowed\"}")

\* The values read_content_length can return where try_process_client calls it.
ContentLengths(w, len) ==
    LET n          == CLen(w, len)
        header_end == StrStr(w, 1, n, CRLFCRLF)
    IN  IF header_end = 0 THEN {0} ELSE read_content_length(w, header_end, n)

---------------------------------------------------------------------------
(* db.c                                                                    *)

\* INSERT OR REPLACE in the place of INSERT OR IGNORE.
InsertOrReplace(st, key, value) ==
    [k \in DOMAIN st \cup {key} |-> IF k = key THEN value ELSE st[k]]

\* INSERT OR IGNORE INTO kv_store (data_key, data_value, ...) VALUES (key, value, ...)
InsertOrIgnore(st, key, value) ==
    IF key \in DOMAIN st THEN st
    ELSE [k \in DOMAIN st \cup {key} |-> IF k = key THEN value ELSE st[k]]

\* The seeding loop of init_db from DATA_KEYS[i] on.
RECURSIVE SeedFrom(_, _)
SeedFrom(st, i) ==
    IF i > DATA_KEYS_COUNT THEN st
    ELSE SeedFrom(InsertOrIgnore(st, DATA_KEYS[i], DefaultJson(DATA_KEYS[i])), i + 1)

init_db(st) == SeedFrom(st, 1)

\* The table init_db finds: none yet (a fresh file), or the one an earlier run
\* of the server left behind.
EmptyStore == [k \in {} |-> ""]
EarlierStore ==
    [k \in KeySet |-> IF k = "profile" THEN "{\"name\":\"ada\"}"
                      ELSE IF k = "events" THEN "[1]" ELSE DefaultJson(k)]
InitialStores == {EmptyStore, EarlierStore}

---------------------------------------------------------------------------
(* main.c: the configuration main() reads.                                 *)

DEFAULT_WORKERS == 64

\* What getenv returns: NULL, or the text of the variable.
NullEnv == [set |-> FALSE, text |-> ""]
EnvText(t) == [set |-> TRUE, text |-> t]

RECURSIVE SkipSpace(_)
SkipSpace(t) ==
    IF t # "" /\ IsSpace(SubSeq(t, 1, 1)) THEN SkipSpace(SubSeq(t, 2, Len(t))) ELSE t
RECURSIVE StrtoulDigits(_, _)
StrtoulDigits(t, acc) ==
    IF t = "" \/ ~IsDigit(SubSeq(t, 1, 1)) THEN acc
    ELSE StrtoulDigits(SubSeq(t, 2, Len(t)), 10 * acc + DigitVal(SubSeq(t, 1, 1)))

\* strtoul(nptr, NULL, 10) on a text without a minus sign and of few digits:
\* white space, an optional "+", then the digits up to the first other byte.
strtoul(nptr) ==
    LET u == SkipSpace(nptr)
        d == IF u # "" /\ SubSeq(u, 1, 1) = "+" THEN SubSeq(u, 2, Len(u)) ELSE u
    IN  StrtoulDigits(d, 0)

\* worker_count as main() computes it from getenv("FRICU_SERVER_WORKERS").
worker_count(workers_env) ==
    LET n == IF workers_env.set THEN strtoul(workers_env.text) ELSE DEFAULT_WORKERS
    IN  IF n = 0 \/ n > 1024 THEN DEFAULT_WORKERS ELSE n

\* The values of FRICU_SERVER_WORKERS in the runs of main().
WorkersEnvs ==
    {NullEnv} \cup {EnvText(t) : t \in {"0", "1", "2", "3", "64", "1024", "1025", "2000",
                                        " 7", "+5", "12abc", "abc", ""}}

\* The values of FRICU_SERVER_BIND in the runs of main().
BindEnvs ==
    {NullEnv} \cup {EnvText(t) : t \in {"127.0.0.1:8080", "0.0.0.0:1", "0.0.0.0:65535",
                                        "0.0.0.0:0", "0.0.0.0:65536", "bad", "bad:", ":80",
                                        "h:80x", "h:4294967376",
                                        Rep("a", 127) \o ":80", Rep("a", 128) \o ":80"}}

\* bind_addr_str, and host and port as main() declares them.
bind_addr_str(bind_env) == IF bind_env.set THEN bind_env.text ELSE "0.0.0.0:8080"
Unbound(bind_env) == [text |-> bind_addr_str(bind_env), ret |-> 0, host |-> "", port |-> 8080]

\* pc: "config" (before the worker count is computed), "bind" (up to the call
\* of parse_bind_addr), "start" (up to and in the loop that creates the
\* threads), "join" (all workers started, main waits in pthread_join), "exit"
\* (main returned 1).
Supervisor(pc, workers_env, count, started, bind) ==
    [pc |-> pc, workers_env |-> workers_env, worker_count |-> count, started |-> started,
     bind |-> bind]

---------------------------------------------------------------------------
(* The clients: what they send.  A request is the byte stream w of one     *)
(* connection, the prefix lengths (cuts) at which its bytes reach the      *)
(* server in separate segments, the whole stream being the last of them,   *)
(* and the prefix length after which the client hangs up (hup, -1 when it  *)
(* keeps the connection open until the server closes it).  The other       *)
(* fields say what the client meant: the method, the target, the text of   *)
(* its Content-Length header ("" when it sends none), the length of the    *)
(* header block up to and including the blank line, the body, and the      *)
(* bytes of a second, pipelined request (tail).                            *)

\* The client's serialisation.  hlen > 0 pads the Host header so that the
\* header block is hlen bytes long.
Client(method, target, cl, body, tail, hlen, cuts, hangsUp) ==
    LET pre   == method \o " " \o target \o " HTTP/1.1\r\nHost: x"
        rest  == "\r\n" \o (IF cl = "" THEN "" ELSE "Content-Length: " \o cl \o "\r\n") \o "\r\n"
        fill  == IF hlen = 0 THEN 0 ELSE hlen - Len(pre) - Len(rest)
        total == Len(pre) + fill + Len(rest) + Len(body) + Len(tail)
    IN  [w |-> Wire(pre, fill, rest \o body \o tail), cuts |-> cuts \cup {total},
         hup |-> IF hangsUp THEN total ELSE -1,
         method |-> method, target |-> target, cl |-> cl, body |-> body, tail |-> tail,
         hlen |-> Len(pre) + fill + Len(rest)]

\* Bytes that are no well-formed request: text, then fill filler bytes.
Raw(text, fill, cuts, hangsUp) ==
    [w |-> Wire(text, fill, ""), cuts |-> cuts \cup {Len(text) + fill},
     hup |-> IF hangsUp THEN Len(text) + fill ELSE -1,
     method |-> "", target |-> "", cl |-> "", body |-> "", tail |-> "", hlen |-> 0]

\* A request written line by line: the request line, the header lines, the
\* blank line, the body.
RECURSIVE Join(_)
Join(lines) == IF lines = <<>> THEN "" ELSE Head(lines) \o CRLF \o Join(Tail(lines))
Sent(method, target, line, lines, cl, body) ==
    LET head == line \o CRLF \o Join(lines) \o CRLF
    IN  [w |-> Wire(head \o body, 0, ""), cuts |-> {Len(head) + Len(body)}, hup |-> -1,
         method |-> method, target |-> target, cl |-> cl, body |-> body, tail |-> "",
         hlen |-> Len(head)]
\* The usual request line and Host header.
Req(method, target, lines, cl, body) ==
    Sent(method, target, method \o " " \o target \o " HTTP/1.1", <<"Host: x">> \o lines, cl, body)

Get(key) == Client("GET", PREFIX \o key, "", "", "", 0, {}, FALSE)
Put(key, body) == Client("PUT", PREFIX \o key, Dec(Len(body)), body, "", 0, {}, FALSE)

\* Requests of the runs with several connections at once.
GetProfile    == Get("profile")
PutProfileN   == Put("profile", "{\"n\":1}")
PutProfileL   == Put("profile", "[1]")
PutActivitiesBad == Put("activities", "abc")
GetActivitiesHup == Client("GET", "/v1/data/activities", "", "", "", 0, {20}, TRUE)

\* Requests of the runs with one connection at a time.
PutNoLength   == Client("PUT", "/v1/data/profile", "", "", "", 0, {}, FALSE)
PutNulBody    == Put("profile", "[]" \o NUL \o "xyz")
PutSlow       == Client("PUT", "/v1/data/events", "17", "[{\"sport\":\"run\"}]", "", 0, {30, 70}, FALSE)
GetUnknown    == Get("nope")
GetEmptyKey   == Get("")
GetKeyPrefix  == Get("profil")
GetKeyLonger  == Get("profile2")
PutKeyCase    == Put("Profile", "[1]")
PutUnknown    == Put("workout", "{}")
GetThenPut    == Client("GET", "/v1/data/profile", "", "",
                        "PUT /v1/data/profile HTTP/1.1\r\nContent-Length: 3\r\n\r\n[1]", 0, {}, FALSE)
PutThenGet    == Client("PUT", "/v1/data/profile", "2", "[]",
                        "GET /v1/data/events HTTP/1.1\r\n\r\n", 0, {}, FALSE)
PutNegative   == Client("PUT", "/v1/data/profile", "-1", "[]", "", 0, {}, FALSE)
PutOverflow   == Client("PUT", "/v1/data/profile", "4294967298", "[]", "", 0, {}, FALSE)
PutTooLong    == Client("PUT", "/v1/data/profile", Dec(REQ_BUF_SIZE - 100 + 1), "", "", 100, {}, FALSE)
PutLongest    == Client("PUT", "/v1/data/profile", Dec(REQ_BUF_SIZE - 100), "", "", 100, {}, TRUE)
Put64KLess1   == Client("PUT", "/v1/data/profile", "2", "[]", "", REQ_BUF_SIZE - 3, {}, FALSE)
Put64K        == Client("PUT", "/v1/data/profile", "2", "[]", "", REQ_BUF_SIZE - 2, {}, FALSE)
Health        == Client("GET", "/health", "", "", "", 0, {}, FALSE)
Post          == Client("POST", "/v1/data/profile", "2", "[]", "", 0, {}, FALSE)
Elsewhere     == Client("GET", "/index.html", "", "", "", 0, {}, FALSE)
OneWord       == Raw("GET\r\n\r\n", 0, {}, FALSE)
Unterminated  == Raw("GET /v1/data/profile HTTP/1.1\r\n", 0, {}, TRUE)
Endless       == Raw("GET /v1/data/profile HTTP/1.1\r\nHost: ", REQ_BUF_SIZE, {}, FALSE)

\* Methods and targets off the served ones.
HealthSlow    == Client("GET", "/health", "", "", "", 0, {9}, FALSE)
PostHealth    == Req("POST", "/health", <<>>, "", "")
HealthSlash   == Req("GET", "/health/", <<>>, "", "")
GetNoSlash    == Req("GET", "/v1/data", <<>>, "", "")
PostUnknown   == Req("POST", "/v1/data/nope", <<>>, "", "")
DeleteEmptyKey == Req("DELETE", "/v1/data/", <<>>, "", "")
GetLower      == Req("get", "/v1/data/profile", <<>>, "", "")
Delete        == Req("DELETE", "/v1/data/profile", <<>>, "", "")
Options       == Req("OPTIONS", "/v1/data/profile", <<>>, "", "")

\* Request lines off the "method target" shape.
Propfind      == Req("PROPFIND", "/v1/data/profile", <<>>, "", "")
Target511     == Req("GET", PREFIX \o Rep(FILL, 511 - Len(PREFIX)), <<>>, "", "")
Target512     == Req("GET", PREFIX \o Rep(FILL, 512 - Len(PREFIX)), <<>>, "", "")
NoTarget      == Sent("GET", "", "GET", <<"Host: x">>, "", "")
NoTargetBody  == Sent("GET", "", "GET", <<>>, "", "/v1/data/profile")
\* The same bytes, the blank line first and the rest in a second segment.
NoTargetBodyCut == [NoTargetBody EXCEPT !.cuts = @ \cup {NoTargetBody.hlen}]

\* Content-Length headers as clients write them.
PutLower      == Req("PUT", "/v1/data/profile", <<"content-length: 3">>, "3", "[1]")
PutNoSpace    == Req("PUT", "/v1/data/profile", <<"Content-Length:3">>, "3", "[1]")
PutSpaces     == Req("PUT", "/v1/data/profile", <<"CONTENT-LENGTH: \t 3">>, "3", "[1]")
PutTwoLengths == Req("PUT", "/v1/data/profile", <<"Content-Length: 2", "Content-Length: 3">>, "2", "[]")
PutLengthFirst == Req("PUT", "/v1/data/profile", <<"Content-Length: 3", "Accept: */*">>, "3", "[1]")
PutOtherLength == Req("PUT", "/v1/data/profile", <<"X-Content-Length: 3">>, "", "")
PutEmptyLength == Req("PUT", "/v1/data/profile", <<"Content-Length:">>, "", "1")

Catalog ==
    << GetProfile, PutProfileN, PutProfileL, PutActivitiesBad, GetActivitiesHup,
       Get("activities"), Get("activity_metric_insights"), Get("meal_plans"),
       Get("custom_foods"), Get("workouts"), Get("events"), Get("lactate_history_records"),
       PutNoLength, PutNulBody, PutSlow,
       GetUnknown, GetEmptyKey, GetKeyPrefix, GetKeyLonger, PutKeyCase, PutUnknown,
       GetThenPut, PutThenGet, PutNegative, PutOverflow, PutTooLong, PutLongest,
       Put64KLess1, Put64K, Health, Post, Elsewhere, OneWord, Unterminated, Endless,
       HealthSlow, PostHealth, HealthSlash, GetNoSlash, PostUnknown, DeleteEmptyKey,
       GetLower, Delete, Options, Propfind, Target511, Target512, NoTarget, NoTargetBody,
       PutLower, PutNoSpace, PutSpaces, PutTwoLengths, PutLengthFirst, PutOtherLength,
       PutEmptyLength, NoTargetBodyCut >>
ReqIds == 1 .. Len(Catalog)
Ids(R) == {i \in ReqIds : Catalog[i] \in R}

StorePool ==
    Ids({GetProfile, PutProfileN, PutProfileL, PutActivitiesBad, GetActivitiesHup})
WirePool == ReqIds \ Ids({PutProfileL, GetActivitiesHup})
BusyPool == Ids({Health, HealthSlow, PutProfileN, GetActivitiesHup})
FramePool == Ids({Put64K, PutActivitiesBad, GetActivitiesHup})
LivePool == Ids({GetProfile, PutSlow, GetActivitiesHup})
BatchPool == Ids({GetProfile, GetActivitiesHup})

---------------------------------------------------------------------------
(* event_loop.c: the state of the workers and of the sockets.              *)

Workers == 1 .. NumWorkers
ConnIds == 1 .. MaxConns
Fds     == 1 .. MaxConns

NoConn == [len |-> 0, cap |-> 0]        \* a NULL slot
NewConnHalf == [len |-> 0, cap |-> CONN_INIT_BUF \div 2]   \* a first buffer of half the size
NewConn == [len |-> 0, cap |-> CONN_INIT_BUF]
\* st: "free" (no connection), "queued" (in the listen queue), "open" (accepted);
\* avail: the bytes of the request that have reached the socket, got: those of
\* them recv has handed to the worker, fin: the peer has hung up.
FreeSock == [st |-> "free", req |-> 0, avail |-> 0, got |-> 0, fin |-> FALSE]
\* from: the length that was buffered when the handling of the event began.
Waiting == [st |-> "wait", fd |-> 0, op |-> "none", key |-> "", payload |-> "", from |-> 0]

\* kind: "resp" (try_process_client answered by itself), "get", "put" (a store
\* handler answered), "413", "oom", or "hup", "eof", "err" (closed without a
\* response: the hangup flag, recv returning 0, recv failing).  refused: the
\* connections an accept loop closed instead of installing, each with the
\* reason.
NoEvent ==
    [kind |-> "none", c |-> 0, w |-> 0, fd |-> 0, req |-> 0, len |-> 0, key |-> "",
     payload |-> "", fails |-> FALSE, overlap |-> FALSE, changed |-> FALSE,
     resp |-> NoResp, refused |-> {}]
\* set, body, by: whether a PUT of the key was answered 204, the body its client
\* sent in the latest one, and the worker that handled it.  vals, open: the
\* bodies of the latest PUTs answered 204 whose handling overlapped, and whether
\* one of that group is still being handled.
NoPut == [set |-> FALSE, body |-> "", by |-> 0, vals |-> {}, open |-> FALSE]

\* The buffered lengths at which try_process_client can be called on request i,
\* and what it then decides, computed once.
ParseLens(i) ==
    {n \in Catalog[i].cuts \cup {CONN_INIT_BUF, 2 * CONN_INIT_BUF, 4 * CONN_INIT_BUF} :
        0 < n /\ n < REQ_BUF_SIZE /\ n <= WLen(Catalog[i].w)}
Decide(i, n) ==
    {try_process_client(Catalog[i].w, n, cl) : cl \in ContentLengths(Catalog[i].w, n)}
Decisions == [i \in ReqIds |-> [n \in ParseLens(i) |-> Decide(i, n)]]

\* The test made at half the size.
ReachedHalfCeiling(len) == len >= REQ_BUF_SIZE \div 2

\* conn->len >= REQ_BUF_SIZE, the test after each recv.
ReachedCeiling(len) == len >= REQ_BUF_SIZE

\* close_conn freeing every slot of the array.
close_conn_every_slot(cs, fd) == [f \in DOMAIN cs |-> NoConn]

\* close_conn without conns[fd] = NULL.
close_conn_keeping_slot(cs, fd) == cs

\* close_conn(qfd, conns, fd): the slot array after it.
close_conn(cs, fd) == [cs EXCEPT ![fd] = NoConn]

\* close_conn's effect on worker w's slots, the descriptor table and the socket.
Closes(w, fd) ==
    /\ conns' = [conns EXCEPT ![w] = close_conn(conns[w], fd)]
    /\ fdtab' = [fdtab EXCEPT ![fd] = 0]
    /\ sock' = [sock EXCEPT ![fdtab[fd]] = FreeSock]

\* The writer of a response.  pc: "idle" (send_response not yet called),
\* "header", "body" (in the send_all of that part), "done" (send_response has
\* returned); sent, retry: send_all's variables; naps: the nanosleep calls and
\* intrs: the interrupted sends since send_response was called; res: the
\* result of the latest send; out: the bytes the socket took of each part;
\* rets: what the send_all calls returned.
NotWriting ==
    [pc |-> "idle", resp |-> NoResp, sent |-> 0, retry |-> 0, naps |-> 0, intrs |-> 0,
     res |-> "none", out |-> [header |-> 0, body |-> 0], rets |-> <<>>]
Writing(resp) == [NotWriting EXCEPT !.resp = resp]

\* The queues before any event.  fds: per worker, the events its latest
\* queue_wait returned and it has not handled yet, in the order of fds[] and
\* errs[], descriptor 0 standing for listen_fd; owner: the worker whose
\* accept_client returned the descriptor, 0 when the descriptor is closed;
\* faults: what the latest handling of an event did that it must not, "twice"
\* (closed a closed descriptor), "foreign" (closed a descriptor of another
\* worker), "nullslot" (took the branch for a ready descriptor with a NULL slot).
\* gone: per worker, the descriptors it has closed since its latest queue_wait
\* while events of that batch were left.
NoQueue ==
    [fds |-> [w \in Workers |-> <<>>], owner |-> [f \in Fds |-> 0], faults |-> {},
     gone |-> [w \in Workers |-> {}]]

\* main() in the runs of the workers: FRICU_SERVER_WORKERS names NumWorkers
\* workers and main has started them.
Supervising ==
    Supervisor("join", EnvText(Dec(NumWorkers)), worker_count(EnvText(Dec(NumWorkers))), NumWorkers,
               [Unbound(NullEnv) EXCEPT !.host = "0.0.0.0"])

InitWith(pool, live) ==
    /\ store \in InitialStores
    /\ phase = "boot"
    /\ env = [pool |-> pool, live |-> live, found |-> store]
    /\ sup = Supervising
    /\ snd = NotWriting
    /\ qfd = NoQueue
    /\ sock = [c \in ConnIds |-> FreeSock]
    /\ fdtab = [f \in Fds |-> 0]
    /\ conns = [w \in Workers |-> [f \in Fds |-> NoConn]]
    /\ wpc = [w \in Workers |-> Waiting]
    /\ last = NoEvent
    /\ lastPut = [k \in KeySet |-> NoPut]

\* Clients on up to MaxConns connections at once.
Init == InitWith(StorePool, MaxConns)

\* Clients one after the other, with every request of the catalog.
InitWire == InitWith(WirePool, 1)

\* Clients on up to MaxConns connections at once, asking for /health while
\* others use the store.
InitBusy == InitWith(BusyPool, MaxConns)

\* Clients on up to MaxConns connections at once, one of them sending more
\* than a buffer holds.
InitFrame == InitWith(FramePool, MaxConns)

\* Clients one after the other, with requests that arrive in one segment or
\* in several.
InitLive == InitWith(LivePool, 1)

\* Clients on up to MaxConns connections at once, whose events the workers
\* take from their queues in batches.
InitBatch == InitWith(BatchPool, MaxConns)

\* main() from its first line on, with no client: the configuration is any of
\* WorkersEnvs and BindEnvs.
InitMain ==
    /\ store \in InitialStores
    /\ phase = "boot"
    /\ env = [pool |-> {}, live |-> 0, found |-> store]
    /\ \E e \in WorkersEnvs, b \in BindEnvs : sup = Supervisor("config", e, 0, 0, Unbound(b))
    /\ snd = NotWriting
    /\ qfd = NoQueue
    /\ sock = [c \in ConnIds |-> FreeSock]
    /\ fdtab = [f \in Fds |-> 0]
    /\ conns = [w \in Workers |-> [f \in Fds |-> NoConn]]
    /\ wpc = [w \in Workers |-> Waiting]
    /\ last = NoEvent
    /\ lastPut = [k \in KeySet |-> NoPut]

\* main: the worker count from the environment.
Configure ==
    /\ sup.pc = "config"
    /\ sup' = [sup EXCEPT !.pc = "bind", !.worker_count = worker_count(sup.workers_env)]
    /\ UNCHANGED <<store, phase, env, snd, qfd, sock, fdtab, conns, wpc, last, lastPut>>

\* main: parse_bind_addr(bind_addr_str, host, sizeof(host), &port) after
\* init_db; main returns 1 when the call does not return 0.
ParseBind ==
    /\ sup.pc = "bind"
    /\ phase = "serve"
    /\ \E r \in parse_bind_addr(sup.bind.text, sup.bind.host, 128, sup.bind.port) :
          sup' = [sup EXCEPT !.pc = IF r.ret = 0 THEN "start" ELSE "exit",
                             !.bind = [text |-> sup.bind.text, ret |-> r.ret,
                                       host |-> r.host, port |-> r.port]]
    /\ UNCHANGED <<store, phase, env, snd, qfd, sock, fdtab, conns, wpc, last, lastPut>>

\* main: one turn of the loop that creates the worker threads.
StartWorker ==
    /\ sup.pc = "start"
    /\ phase = "serve"
    /\ sup.started < sup.worker_count
    /\ sup' = [sup EXCEPT !.started = sup.started + 1]
    /\ UNCHANGED <<store, phase, env, snd, qfd, sock, fdtab, conns, wpc, last, lastPut>>

\* main: pthread_create fails, main returns 1.
StartFails ==
    /\ sup.pc = "start"
    /\ phase = "serve"
    /\ sup.started < sup.worker_count
    /\ sup' = [sup EXCEPT !.pc = "exit"]
    /\ UNCHANGED <<store, phase, env, snd, qfd, sock, fdtab, conns, wpc, last, lastPut>>

\* main: every thread is created, main waits for them in pthread_join.
JoinWorkers ==
    /\ sup.pc = "start"
    /\ phase = "serve"
    /\ sup.started = sup.worker_count
    /\ sup' = [sup EXCEPT !.pc = "join"]
    /\ UNCHANGED <<store, phase, env, snd, qfd, sock, fdtab, conns, wpc, last, lastPut>>

\* main: init_db(db_path), then the workers are started.
InitDb ==
    /\ phase = "boot"
    /\ sup.pc # "config"
    /\ phase' = "serve"
    /\ store' = init_db(store)
    /\ last' = NoEvent
    /\ UNCHANGED <<env, snd, qfd, sup, sock, fdtab, conns, wpc, lastPut>>

\* A client connects and its first segment arrives: the connection waits in
\* the listen queue.
ClientConnect(c) ==
    /\ phase = "serve"
    /\ sock[c].st = "free"
    /\ \A d \in ConnIds : d < c => sock[d].st # "free"
    /\ Cardinality({d \in ConnIds : sock[d].st # "free"}) < env.live
    /\ \E r \in env.pool :
          sock' = [sock EXCEPT ![c] = [FreeSock EXCEPT !.st = "queued", !.req = r,
                                               !.avail = MinOf(Catalog[r].cuts)]]
    /\ last' = NoEvent
    /\ UNCHANGED <<store, phase, env, snd, qfd, sup, fdtab, conns, wpc, lastPut>>

\* The next segment of the client's bytes reaches the server's socket.
ClientSend(c) ==
    /\ sock[c].st \in {"queued", "open"}
    /\ ~sock[c].fin
    /\ \E n \in Catalog[sock[c].req].cuts :
          /\ n > sock[c].avail
          /\ \A m \in Catalog[sock[c].req].cuts : m > sock[c].avail => n <= m
          /\ sock' = [sock EXCEPT ![c].avail = n]
    /\ last' = NoEvent
    /\ UNCHANGED <<store, phase, env, snd, qfd, sup, fdtab, conns, wpc, lastPut>>

\* The client closes or shuts down its side: the peer hangs up.
ClientHangup(c) ==
    /\ sock[c].st \in {"queued", "open"}
    /\ ~sock[c].fin
    /\ sock[c].avail = Catalog[sock[c].req].hup
    /\ sock' = [sock EXCEPT ![c].fin = TRUE]
    /\ last' = NoEvent
    /\ UNCHANGED <<store, phase, env, snd, qfd, sup, fdtab, conns, wpc, lastPut>>

---------------------------------------------------------------------------
(* event_loop.c: run_worker_loop.                                          *)

\* The record of an event on descriptor fd: what was handled, and whether the
\* step changed the store.
Event(kind, w, fd, len, key, payload, fails, overlap, st, resp) ==
    [kind |-> kind, c |-> fdtab[fd], w |-> w, fd |-> fd, req |-> sock[fdtab[fd]].req,
     len |-> len, key |-> key, payload |-> payload, fails |-> fails,
     overlap |-> overlap, changed |-> (st # store), resp |-> resp, refused |-> {}]

\* send_response(fd, ...) followed by close_conn(qfd, conns, fd) and the break
\* out of the read loop.
RespondAndClose(w, fd, ev) ==
    /\ Closes(w, fd)
    /\ wpc' = [wpc EXCEPT ![w] = Waiting]
    /\ last' = ev

\* The owners of the descriptors after a step of worker w: a descriptor the
\* step closed has none, one its accept loop returned and left open is w's.
Owners(w) ==
    [f \in Fds |-> IF fdtab'[f] = 0 THEN 0 ELSE IF fdtab[f] = 0 THEN w ELSE qfd.owner[f]]
Tracked(w) ==
    qfd' = [qfd EXCEPT !.owner = Owners(w), !.faults = {},
                       !.gone[w] = IF qfd.fds[w] = <<>> THEN @
                                   ELSE @ \cup {f \in Fds : fdtab[f] # 0 /\ fdtab'[f] = 0}]

\* How one turn of the accept loop ends for the descriptor accept_client
\* returned: the slot is installed and registered, or the descriptor is above
\* max_fds, configure_socket_after_accept fails, calloc or malloc fails, or
\* register_client_fd fails.
AcceptOutcomes == {"installed", "above", "config", "alloc", "register"}

\* The turn of the accept loop that leaves the slot behind when
\* register_client_fd fails.
AcceptOneLeaking(tab, cs, sk, c, fd, outcome) ==
    IF outcome \in {"installed", "register"}
    THEN [fdtab |-> IF outcome = "installed" THEN [tab EXCEPT ![fd] = c] ELSE tab,
          conns |-> [cs EXCEPT ![fd] = NewConn],
          sock  |-> IF outcome = "installed" THEN [sk EXCEPT ![c].st = "open"]
                    ELSE [sk EXCEPT ![c] = FreeSock]]
    ELSE [fdtab |-> tab, conns |-> cs, sock |-> [sk EXCEPT ![c] = FreeSock]]

\* One turn of the accept loop for connection c, which accept_client returned
\* on descriptor fd: the descriptor table, the worker's slots and the sockets
\* after it.
AcceptOne(tab, cs, sk, c, fd, outcome) ==
    CASE outcome = "installed" ->
            [fdtab |-> [tab EXCEPT ![fd] = c], conns |-> [cs EXCEPT ![fd] = NewConn],
             sock |-> [sk EXCEPT ![c].st = "open"]]
      [] outcome = "register" ->
            [fdtab |-> tab, conns |-> close_conn([cs EXCEPT ![fd] = NewConn], fd),
             sock |-> [sk EXCEPT ![c] = FreeSock]]
      [] OTHER ->
            [fdtab |-> tab, conns |-> cs, sock |-> [sk EXCEPT ![c] = FreeSock]]

\* The accept loop from the oldest queued connection on: accept_client returns
\* it on the lowest free descriptor; how[c] is the outcome of the turn for
\* connection c.
RECURSIVE AcceptAll(_, _, _, _)
AcceptAll(tab, cs, sk, how) ==
    LET queued == {c \in ConnIds : sk[c].st = "queued"}
    IN  IF queued = {} THEN [fdtab |-> tab, conns |-> cs, sock |-> sk]
        ELSE LET c  == MinOf(queued)
                 fd == MinOf({f \in Fds : tab[f] = 0})
                 a  == AcceptOne(tab, cs, sk, c, fd, how[c])
             IN  AcceptAll(a.fdtab, a.conns, a.sock, how)

\* The connections of an accept loop that were closed, with the reasons.
Refused(how) == {<<c, how[c]>> : c \in {d \in DOMAIN how : how[d] # "installed"}}

\* The listen event installing the slots it accepts in every worker's array.
ListenEventShared(w) ==
    /\ wpc[w].st = "wait"
    /\ \E c \in ConnIds : sock[c].st = "queued"
    /\ \E how \in [{c \in ConnIds : sock[c].st = "queued"} -> AcceptOutcomes] :
         LET a == AcceptAll(fdtab, conns[w], sock, how)
         IN  /\ fdtab' = a.fdtab
             /\ conns' = [v \in Workers |-> a.conns]
             /\ sock' = a.sock
             /\ last' = [NoEvent EXCEPT !.refused = Refused(how)]
    /\ Tracked(w)
    /\ UNCHANGED <<store, phase, env, snd, sup, wpc, lastPut>>

\* queue_wait returns the listening descriptor: the worker accepts until
\* accept would block.
ListenEvent(w) ==
    /\ wpc[w].st = "wait"
    /\ \E c \in ConnIds : sock[c].st = "queued"
    /\ \E how \in [{c \in ConnIds : sock[c].st = "queued"} -> AcceptOutcomes] :
         LET a == AcceptAll(fdtab, conns[w], sock, how)
         IN  /\ fdtab' = a.fdtab
             /\ conns' = [conns EXCEPT ![w] = a.conns]
             /\ sock' = a.sock
             /\ last' = [NoEvent EXCEPT !.refused = Refused(how)]
    /\ Tracked(w)
    /\ UNCHANGED <<store, phase, env, snd, sup, wpc, lastPut>>

\* queue_wait returns a negative count and run_worker_loop returns.
WaitErrorReturns(w) ==
    /\ wpc[w].st = "wait"
    /\ phase = "serve"
    /\ wpc' = [wpc EXCEPT ![w] = [Waiting EXCEPT !.st = "exit"]]
    /\ last' = NoEvent
    /\ UNCHANGED <<store, phase, env, snd, qfd, sup, sock, fdtab, conns, lastPut>>

\* queue_wait returns a negative count (EINTR or another error): the worker
\* calls it again.
WaitError(w) ==
    /\ wpc[w].st = "wait"
    /\ phase = "serve"
    /\ UNCHANGED vars

\* queue_wait returns the listening descriptor and accept_client fails at
\* once with an error other than EINTR: the accept loop ends, the worker goes
\* on with the next event.
AcceptError(w) ==
    /\ wpc[w].st = "wait"
    /\ phase = "serve"
    /\ UNCHANGED vars

\* realloc asked for the capacity the buffer has.
NextCapKept(cap) == cap

\* next, the capacity realloc is asked for when the buffer is full: twice the
\* capacity, REQ_BUF_SIZE at most.
NextCap(cap) == Min(cap * 2, REQ_BUF_SIZE)

\* recv returned -1 with the buffer emptied.
WouldBlockResets(conn) == [conn EXCEPT !.len = 0]

\* recv returned -1 with EAGAIN or EWOULDBLOCK: the break out of the read
\* loop, which leaves the connection's slot as it is.
WouldBlock(conn) == conn

\* One turn of the read loop on descriptor fd, up to the call of a store
\* handler: grow the buffer when it is full, recv, the 64 KiB check,
\* try_process_client.  recv asked for cap - len = 0 bytes returns 0, which the
\* loop takes as the peer's close.
ReadTurn(w, fd) ==
    LET c    == fdtab[fd]
        conn == conns[w][fd]
        grow == conn.len = conn.cap /\ conn.cap < REQ_BUF_SIZE
        cap  == IF grow THEN NextCap(conn.cap) ELSE conn.cap
        r    == Min(cap - conn.len, sock[c].avail - sock[c].got)
        len  == conn.len + r
        from == IF wpc[w].st = "read" THEN wpc[w].from ELSE conn.len
        ev(kind, resp) == Event(kind, w, fd, len, "", "", FALSE, FALSE, store, resp)
    IN  \E oom \in (IF grow THEN BOOLEAN ELSE {FALSE}) :
          IF oom
          THEN RespondAndClose(w, fd,
                 Event("oom", w, fd, conn.len, "", "", FALSE, FALSE, store,
                       send_response(500, "Internal Server Error", "{\"error\":\"oom\"}")))
          ELSE IF cap = conn.len
          THEN RespondAndClose(w, fd, ev("eof", NoResp))
          ELSE IF r > 0
          THEN IF ReachedCeiling(len)
               THEN RespondAndClose(w, fd, ev("413",
                      send_response(413, "Payload Too Large", "{\"error\":\"request too large\"}")))
               ELSE \E d \in Decisions[sock[c].req][len] :
                      CASE d.op = "none" ->
                                /\ conns' = [conns EXCEPT ![w][fd] = [len |-> len, cap |-> cap]]
                                /\ wpc' = [wpc EXCEPT ![w] = [Waiting EXCEPT !.st = "read", !.fd = fd,
                                                                            !.from = from]]
                                /\ last' = NoEvent
                                /\ sock' = [sock EXCEPT ![c].got = sock[c].got + r]
                                /\ UNCHANGED fdtab
                        [] d.op = "resp" -> RespondAndClose(w, fd, ev("resp", d.resp))
                        [] OTHER ->
                                /\ conns' = [conns EXCEPT ![w][fd] = [len |-> len, cap |-> cap]]
                                /\ wpc' = [wpc EXCEPT ![w] =
                                            [st |-> "db", fd |-> fd, op |-> d.op,
                                             key |-> d.key, payload |-> d.payload,
                                             from |-> from]]
                                /\ last' = NoEvent
                                /\ sock' = [sock EXCEPT ![c].got = sock[c].got + r]
                                /\ UNCHANGED fdtab
          ELSE IF sock[c].fin
          THEN \E kind \in {"eof", "err"} : RespondAndClose(w, fd, ev(kind, NoResp))
          ELSE /\ conns' = [conns EXCEPT ![w][fd] = WouldBlock([len |-> conn.len, cap |-> cap])]
               /\ wpc' = [wpc EXCEPT ![w] = Waiting]
               /\ last' = NoEvent
               /\ UNCHANGED <<sock, fdtab>>

\* The event with the error/hangup flag handled as a readable one.
ErrEventReads(w, fd) ==
    /\ wpc[w].st = "wait"
    /\ conns[w][fd] # NoConn
    /\ sock[fdtab[fd]].fin
    /\ ReadTurn(w, fd)
    /\ Tracked(w)
    /\ UNCHANGED <<store, phase, env, snd, sup, lastPut>>

\* queue_wait returns a client descriptor with the error/hangup flag.
ErrEvent(w, fd) ==
    /\ wpc[w].st = "wait"
    /\ conns[w][fd] # NoConn
    /\ sock[fdtab[fd]].fin
    /\ RespondAndClose(w, fd, Event("hup", w, fd, conns[w][fd].len, "", "", FALSE, FALSE, store, NoResp))
    /\ Tracked(w)
    /\ UNCHANGED <<store, phase, env, snd, sup, lastPut>>

\* queue_wait returns a client descriptor that is readable and carries no
\* error flag: the first turn of the read loop.
ReadEvent(w, fd) ==
    /\ wpc[w].st = "wait"
    /\ conns[w][fd] # NoConn
    /\ ~sock[fdtab[fd]].fin
    /\ sock[fdtab[fd]].avail > sock[fdtab[fd]].got
    /\ ReadTurn(w, fd)
    /\ Tracked(w)
    /\ UNCHANGED <<store, phase, env, snd, sup, lastPut>>

\* A read loop that neither reads nor leaves.
ReadStepStalls(w) ==
    /\ wpc[w].st = "read"
    /\ UNCHANGED vars

\* A turn of the read loop that drops what is buffered and goes on.
ReadStepForgets(w) ==
    /\ wpc[w].st = "read"
    /\ conns[w][wpc[w].fd].len > 0
    /\ conns' = [conns EXCEPT ![w][wpc[w].fd].len = 0]
    /\ last' = NoEvent
    /\ UNCHANGED <<store, phase, env, snd, qfd, sup, sock, fdtab, wpc, lastPut>>

\* The next turn of the read loop, after try_process_client returned 0.
ReadStep(w) ==
    /\ wpc[w].st = "read"
    /\ ReadTurn(w, wpc[w].fd)
    /\ Tracked(w)
    /\ UNCHANGED <<store, phase, env, snd, sup, lastPut>>

\* handle_get_data or handle_put_data: the step of the prepared statement,
\* which the store runs atomically, the response, and the close_conn that
\* follows try_process_client's return of 1.
DbStep(w) ==
    /\ wpc[w].st = "db"
    /\ \E stepFails \in BOOLEAN :
         LET fd      == wpc[w].fd
             key     == wpc[w].key
             payload == wpc[w].payload
             others  == {v \in Workers \ {w} :
                           wpc[v].st = "db" /\ wpc[v].op = "put" /\ wpc[v].key = key}
             overlap == others # {} \/ (wpc[w].op = "put" /\ lastPut[key].open)
             ev(fails, st, resp) ==
                 Event(wpc[w].op, w, fd, conns[w][fd].len, key, payload, fails, overlap, st, resp)
         IN  IF wpc[w].op = "get"
             THEN /\ RespondAndClose(w, fd, ev(stepFails, store, handle_get_data(store, key, stepFails)))
                  /\ UNCHANGED <<store, lastPut>>
             ELSE LET h == handle_put_data(store, key, payload, stepFails)
                  IN  /\ RespondAndClose(w, fd,
                            ev(stepFails /\ json_is_valid(payload) = 1, h.store, h.resp))
                      /\ store' = h.store
                      /\ LET ok   == h.resp.code = 204
                              sent == Catalog[sock[fdtab[fd]].req].body
                              was  == lastPut[key]
                              vals == IF ~overlap THEN {}
                                      ELSE (IF was.open THEN was.vals ELSE {})
                                           \cup (IF ok THEN {sent} ELSE {})
                          IN  lastPut' = [lastPut EXCEPT ![key] =
                                            [set  |-> was.set \/ ok,
                                             body |-> IF ok THEN sent ELSE was.body,
                                             by   |-> IF ok THEN w ELSE was.by,
                                             vals |-> IF ok \/ overlap THEN vals ELSE was.vals,
                                             open |-> others # {}]]
    /\ Tracked(w)
    /\ UNCHANGED <<phase, env, snd, sup>>

---------------------------------------------------------------------------
(* event_loop.c: run_worker_loop, one batch of events at a time.           *)

\* The events queue_wait can return to worker w: the listening descriptor
\* while a connection waits in the listen queue, and every open descriptor
\* registered in w's queue (those w's accept loops left open) whose peer has
\* hung up or has sent bytes recv has not taken yet; is_err is the hangup flag.
Ready(w) ==
    {[fd |-> 0, err |-> FALSE] : c \in {d \in ConnIds : sock[d].st = "queued"}}
    \cup {[fd |-> f, err |-> sock[fdtab[f]].fin] :
            f \in {g \in Fds : /\ qfd.owner[g] = w
                               /\ fdtab[g] # 0
                               /\ \/ sock[fdtab[g]].fin
                                  \/ sock[fdtab[g]].avail > sock[fdtab[g]].got}}

\* fds[] and errs[] as queue_wait can fill them: some of the ready events,
\* each once, in any order.
Batches(R) ==
    {b \in UNION {[1 .. n -> R] : n \in 1 .. Cardinality(R)} :
        \A i, j \in DOMAIN b : i # j => b[i] # b[j]}

\* queue_wait returns n > 0 events.
QueueWait(w) ==
    /\ phase = "serve"
    /\ wpc[w].st = "wait"
    /\ qfd.fds[w] = <<>>
    /\ \E b \in Batches(Ready(w)) :
          qfd' = [qfd EXCEPT !.fds[w] = b, !.faults = {}, !.gone[w] = {}]
    /\ last' = NoEvent
    /\ UNCHANGED <<store, phase, env, snd, sup, sock, fdtab, conns, wpc, lastPut>>

\* The worker is at the top of the for loop with events left, fds[i] first.
AtEvent(w) ==
    /\ wpc[w].st = "wait"
    /\ qfd.fds[w] # <<>>

\* The queues after worker w handled fds[i]: the event is done with.
Handled(w, faults) ==
    qfd' = [qfd EXCEPT !.fds[w] = Tail(@), !.owner = Owners(w), !.faults = faults,
                       !.gone[w] = @ \cup {f \in Fds : fdtab[f] # 0 /\ fdtab'[f] = 0}]

\* fds[i] is the listening descriptor: the accept loop, which ends at once
\* when another worker has taken the connections.
HandleListen(w) ==
    /\ AtEvent(w)
    /\ Head(qfd.fds[w]).fd = 0
    /\ \E how \in [{c \in ConnIds : sock[c].st = "queued"} -> AcceptOutcomes] :
         LET a == AcceptAll(fdtab, conns[w], sock, how)
         IN  /\ fdtab' = a.fdtab
             /\ conns' = [conns EXCEPT ![w] = a.conns]
             /\ sock' = a.sock
             /\ last' = [NoEvent EXCEPT !.refused = Refused(how)]
    /\ Handled(w, {})
    /\ UNCHANGED <<store, phase, env, snd, sup, wpc, lastPut>>

\* close(fd) as a worker other than its owner, or nobody, sees it: what it
\* does to the descriptor table and to the socket.
CloseFd(w, fd) ==
    /\ fdtab' = [fdtab EXCEPT ![fd] = 0]
    /\ sock' = IF fdtab[fd] = 0 THEN sock ELSE [sock EXCEPT ![fdtab[fd]] = FreeSock]
CloseFaults(w, fd) ==
    (IF fdtab[fd] = 0 THEN {"twice"} ELSE {})
    \cup (IF fdtab[fd] # 0 /\ qfd.owner[fd] # w THEN {"foreign"} ELSE {})

\* The errs[i] branch going on to the slot lookup after close_conn.
HandleErrFallsThrough(w) ==
    /\ AtEvent(w)
    /\ Head(qfd.fds[w]).fd # 0
    /\ Head(qfd.fds[w]).err
    /\ LET fd == Head(qfd.fds[w]).fd
       IN  /\ conns' = [conns EXCEPT ![w] = close_conn(conns[w], fd)]
           /\ CloseFd(w, fd)
           /\ last' = NoEvent
           /\ Handled(w, CloseFaults(w, fd) \cup {"nullslot", "twice"})
    /\ UNCHANGED <<store, phase, env, snd, sup, wpc, lastPut>>

\* errs[i] is set: close_conn(qfd, conns, fd), whatever the slot holds.
HandleErr(w) ==
    /\ AtEvent(w)
    /\ Head(qfd.fds[w]).fd # 0
    /\ Head(qfd.fds[w]).err
    /\ LET fd == Head(qfd.fds[w]).fd
       IN  /\ conns' = [conns EXCEPT ![w] = close_conn(conns[w], fd)]
           /\ CloseFd(w, fd)
           /\ last' = IF fdtab[fd] = 0 THEN NoEvent
                      ELSE Event("hup", w, fd, conns[w][fd].len, "", "", FALSE, FALSE,
                                 store, NoResp)
           /\ Handled(w, CloseFaults(w, fd))
    /\ UNCHANGED <<store, phase, env, snd, sup, wpc, lastPut>>

\* fds[i] is a client descriptor without the error flag: the slot lookup, the
\* close(fd) of the branch for a NULL slot, or the first turn of the read loop.
HandleRead(w) ==
    /\ AtEvent(w)
    /\ Head(qfd.fds[w]).fd # 0
    /\ ~Head(qfd.fds[w]).err
    /\ LET fd == Head(qfd.fds[w]).fd
       IN  IF conns[w][fd] = NoConn
           THEN /\ CloseFd(w, fd)
                /\ last' = NoEvent
                /\ Handled(w, CloseFaults(w, fd) \cup {"nullslot"})
                /\ UNCHANGED <<conns, wpc>>
           ELSE /\ ReadTurn(w, fd)
                /\ Handled(w, {})
    /\ UNCHANGED <<store, phase, env, snd, sup, lastPut>>

NextBatch ==
    \/ InitDb
    \/ \E c \in ConnIds : ClientConnect(c) \/ ClientSend(c) \/ ClientHangup(c)
    \/ \E w \in Workers : QueueWait(w)
    \/ \E w \in Workers : HandleListen(w) \/ HandleErr(w) \/ HandleRead(w)
    \/ \E w \in Workers : ReadStep(w) \/ DbStep(w)

Next ==
    \/ InitDb
    \/ \E c \in ConnIds : ClientConnect(c) \/ ClientSend(c) \/ ClientHangup(c)
    \/ \E w \in Workers : ListenEvent(w) \/ ReadStep(w) \/ DbStep(w)
    \/ \E w \in Workers : WaitError(w) \/ AcceptError(w)
    \/ \E w \in Workers, fd \in Fds : ErrEvent(w, fd) \/ ReadEvent(w, fd)

Spec == Init /\ [][Next]_vars
SpecWire == InitWire /\ [][Next]_vars
SpecBusy == InitBusy /\ [][Next]_vars
SpecFrame == InitFrame /\ [][Next]_vars
SpecBatch == InitBatch /\ [][NextBatch]_vars

\* The scheduling of the workers: a client's bytes arrive; queue_wait is
\* level-triggered, so a connection that is readable whenever its worker
\* waits is handed to it in the end, however often the worker is busy with
\* another connection in between; a worker in its read loop or in a store
\* step goes on, the store granting its lock in the end.
Fairness ==
    /\ \A c \in ConnIds : WF_vars(ClientSend(c))
    /\ \A w \in Workers, fd \in Fds : SF_vars(ReadEvent(w, fd))
    /\ \A w \in Workers : WF_vars(ReadStep(w)) /\ WF_vars(DbStep(w))
SpecLive == InitLive /\ [][Next]_vars /\ Fairness

---------------------------------------------------------------------------
(* http.c: send_response and send_all, one send at a time.                 *)

\* The responses written in the runs of the writer.
Responses ==
    { send_response(204, "No Content", ""),
      send_response(200, "OK", "{}"),
      send_response(404, "Not Found", "{\"error\":\"not found\"}") }

\* A response is to be written and nothing else happens.
InitSend ==
    /\ store \in {EmptyStore}
    /\ phase = "serve"
    /\ env = [pool |-> {}, live |-> 0, found |-> store]
    /\ sup = Supervising
    /\ \E r \in Responses : snd = Writing(r)
    /\ qfd = NoQueue
    /\ sock = [c \in ConnIds |-> FreeSock]
    /\ fdtab = [f \in Fds |-> 0]
    /\ conns = [w \in Workers |-> [f \in Fds |-> NoConn]]
    /\ wpc = [w \in Workers |-> Waiting]
    /\ last = NoEvent
    /\ lastPut = [k \in KeySet |-> NoPut]

\* len, the length of the part send_all is writing.
PartLen(s) == IF s.pc = "header" THEN Len(s.resp.header) ELSE Len(s.resp.body)

\* send_all returns ret after a send with result res: send_response, which
\* ignores ret, calls send_all for the body when it was writing the header
\* and body_len > 0, and returns otherwise.
send_all_returns(s, ret, res) ==
    IF s.pc = "header" /\ Len(s.resp.body) > 0
    THEN [s EXCEPT !.pc = "body", !.sent = 0, !.retry = 0, !.res = res,
                   !.rets = Append(s.rets, ret)]
    ELSE [s EXCEPT !.pc = "done", !.res = res, !.rets = Append(s.rets, ret)]

\* send_response formats the header (header_len > 0) and calls send_all.
SendResponse ==
    /\ snd.pc = "idle" /\ snd.resp # NoResp
    /\ snd' = [snd EXCEPT !.pc = "header"]
    /\ UNCHANGED <<store, phase, env, qfd, sup, sock, fdtab, conns, wpc, last, lastPut>>

\* send returns n > 0: the bytes left, or SendPiece of them.
SendSome ==
    /\ snd.pc \in {"header", "body"}
    /\ \E n \in {Min(SendPiece, PartLen(snd) - snd.sent), PartLen(snd) - snd.sent} :
         LET s == [snd EXCEPT !.sent = @ + n, !.out[snd.pc] = @ + n, !.res = "sent"]
         IN  snd' = IF s.sent < PartLen(s) THEN s ELSE send_all_returns(s, 0, "sent")
    /\ UNCHANGED <<store, phase, env, qfd, sup, sock, fdtab, conns, wpc, last, lastPut>>

\* send returns -1 with EINTR: the loop goes on.
SendInterrupted ==
    /\ snd.pc \in {"header", "body"}
    /\ snd.intrs < MaxIntr
    /\ snd' = [snd EXCEPT !.intrs = @ + 1, !.res = "eintr"]
    /\ UNCHANGED <<store, phase, env, qfd, sup, sock, fdtab, conns, wpc, last, lastPut>>

\* send returns -1 with EAGAIN or EWOULDBLOCK: with retry < 4 send_all counts
\* the retry, sleeps 50 microseconds and goes on, otherwise it returns -1.
SendWouldBlock ==
    /\ snd.pc \in {"header", "body"}
    /\ snd' = IF snd.retry < 4
              THEN [snd EXCEPT !.retry = @ + 1, !.naps = @ + 1, !.res = "eagain"]
              ELSE send_all_returns(snd, -1, "eagain")
    /\ UNCHANGED <<store, phase, env, qfd, sup, sock, fdtab, conns, wpc, last, lastPut>>

\* send returns 0, or -1 with another error: send_all returns -1.
SendFails ==
    /\ snd.pc \in {"header", "body"}
    /\ \E res \in {"zero", "error"} : snd' = send_all_returns(snd, -1, res)
    /\ UNCHANGED <<store, phase, env, qfd, sup, sock, fdtab, conns, wpc, last, lastPut>>

NextSend == SendResponse \/ SendSome \/ SendInterrupted \/ SendWouldBlock \/ SendFails
SpecSend == InitSend /\ [][NextSend]_vars

\* main() alone, from the environment to pthread_join.
NextMain == Configure \/ InitDb \/ ParseBind \/ StartWorker \/ StartFails \/ JoinWorkers
SpecMain == InitMain /\ [][NextMain]_vars


---------------------------------------------------------------------------
(* The specification's vocabulary, and the requests as their clients meant *)
(* them.                                                                   *)

Vocabulary ==
    { "activities", "activity_metric_insights", "meal_plans", "custom_foods",
      "workouts", "events", "profile", "lactate_history_records" }

\* Strings that differ from a vocabulary key by case, by a byte or by a prefix.
NearMisses ==
    { "", "p", "profil", "profile2", "Profile", "PROFILE", " profile", "profile ",
      "profile/", "event", "eventss", "meal-plans", "workout", "activity_metric",
      "lactate_history_record" }

IsJson(text) == text \in JsonTexts
SpecDefault(key) == IF key = "profile" THEN "{}" ELSE "[]"

IsDataTarget(r) ==
    Len(r.target) >= 9 /\ SubSeq(r.target, 1, 9) = "/v1/data/"
KeyOf(r) == SubSeq(r.target, 10, Len(r.target))
OnValidKey(r, method) ==
    r.method = method /\ IsDataTarget(r) /\ KeyOf(r) \in Vocabulary

\* The number a text of decimal digits denotes.
RECURSIVE NatOf(_)
NatOf(t) ==
    IF Len(t) = 0 THEN 0
    ELSE 10 * NatOf(SubSeq(t, 1, Len(t) - 1))
         + (CHOOSE d \in 0 .. 9 : SubSeq("0123456789", d + 1, d + 1) = SubSeq(t, Len(t), Len(t)))

\* The client sent the whole body its Content-Length header announces.
BodyAsAnnounced(r) ==
    (r.cl = "" /\ r.body = "") \/ (r.cl # "" /\ SubSeq(r.cl, 1, 1) # "-" /\ Len(r.cl) <= 5
                                    /\ NatOf(r.cl) = Len(r.body))
\* The announced Content-Length is negative, or greater than 65536 minus the
\* length of the header block.
LengthRefused(r) ==
    /\ r.cl # ""
    /\ \/ SubSeq(r.cl, 1, 1) = "-"
       \/ Len(r.cl) > 5
       \/ NatOf(r.cl) > 65536 - r.hlen

\* The value of the header field of that name in a response header, "" when
\* there is no such line.
FieldOf(header, name) ==
    LET mark   == "\r\n" \o name \o ": "
        starts == {i \in 1 .. Len(header) :
                      i + Len(mark) - 1 <= Len(header)
                      /\ SubSeq(header, i, i + Len(mark) - 1) = mark}
    IN  IF starts = {} THEN ""
        ELSE LET from == MinOf(starts) + Len(mark)
                 ends == {j \in from .. Len(header) - 1 : SubSeq(header, j, j + 1) = "\r\n"}
             IN  SubSeq(header, from, MinOf(ends) - 1)

Answered == last.resp.code # 0
Asked == Catalog[last.req]
ErrorBody(text) == "{\"error\":\"" \o text \o "\"}"

---------------------------------------------------------------------------
(* The claims.                                                             *)

\* C1: round trip.  Once a PUT /v1/data/K whose body V is valid JSON has been
\* answered 204, a GET /v1/data/K handled afterwards by any worker, with no
\* other successful PUT to K in between, is answered 200 with a body equal to
\* V byte for byte.
RoundTrip ==
    (/\ last.kind = "get"
     /\ OnValidKey(Asked, "GET")
     /\ lastPut[KeyOf(Asked)].set
     /\ IsJson(lastPut[KeyOf(Asked)].body))
    => /\ last.resp.code = 200
       /\ last.resp.body = lastPut[KeyOf(Asked)].body

\* The round trip for the GETs whose fetch step returns its row.
RoundTripWhenFetched == last.fails \/ RoundTrip

\* C2: two PUTs to the same valid key with valid JSON bodies V1 and V2, handled
\* by different workers at overlapping times, are both answered 204 (their
\* upsert steps succeeding), and a GET of the key handled after both answers,
\* and before a later PUT, returns exactly V1 or exactly V2.
TwoPuts ==
    /\ (/\ last.kind = "put"
        /\ last.overlap
        /\ ~last.fails
        /\ OnValidKey(Asked, "PUT")
        /\ IsJson(Asked.body))
       => /\ last.resp.code = 204
          /\ store[KeyOf(Asked)] = Asked.body
    /\ (/\ last.kind = "get"
        /\ OnValidKey(Asked, "GET")
        /\ ~lastPut[KeyOf(Asked)].open
        /\ lastPut[KeyOf(Asked)].vals # {})
       => /\ last.resp.code = 200
          /\ last.resp.body \in lastPut[KeyOf(Asked)].vals

\* The same for the GETs whose fetch step returns its row.
TwoPutsWhenFetched == (last.kind = "get" /\ last.fails) \/ TwoPuts

\* A GET of profile after two overlapping PUTs of different bodies were both
\* answered 204 returns one of the two.
TwoPutsSeen ==
    /\ last.kind = "get"
    /\ ~last.fails
    /\ KeyOf(Asked) = "profile"
    /\ ~lastPut["profile"].open
    /\ lastPut["profile"].vals = {"[1]", "{\"n\":1}"}
    /\ last.resp.body \in {"[1]", "{\"n\":1}"}

\* C3: a PUT on a valid key whose fully buffered body is not valid JSON, an
\* empty body included, is answered 400 'invalid json payload' and leaves the
\* stored value of every key unchanged.
InvalidJsonRefused ==
    (/\ Answered
     /\ OnValidKey(Asked, "PUT")
     /\ BodyAsAnnounced(Asked)
     /\ ~IsJson(Asked.body))
    => /\ last.resp.code = 400
       /\ last.resp.body = ErrorBody("invalid json payload")
       /\ ~last.changed

\* C4: in every state after bootstrap the store holds exactly one row for each
\* key of the vocabulary and none for any other key, and every stored value is
\* non-empty and valid JSON.
StoreShape ==
    phase = "serve"
    => /\ DOMAIN store = Vocabulary
       /\ \A k \in DOMAIN store : store[k] # "" /\ IsJson(store[k])

\* A PUT has just replaced a stored value while another PUT is being handled.
StoreShapeSeen ==
    /\ phase = "serve"
    /\ last.kind = "put"
    /\ last.changed
    /\ last.overlap
    /\ DOMAIN store = Vocabulary
    /\ store["profile"] = "{\"n\":1}"

\* C5: for every target /v1/data/K where K is not one of the eight vocabulary
\* keys, a GET and a PUT that the parser handles are answered 404 'unknown key'
\* by the parser itself, no store handler is ever called for them and the store
\* stays as it is; is_valid_key is true exactly for the eight vocabulary keys.
UnknownKeyRefused ==
    /\ \A r \in {Catalog[i] : i \in ReqIds} :
          IsDataTarget(r) => (is_valid_key(KeyOf(r)) <=> KeyOf(r) \in Vocabulary)
    /\ \A k \in Vocabulary \cup NearMisses : is_valid_key(k) <=> k \in Vocabulary
    /\ (/\ Answered
        /\ Asked.method \in {"GET", "PUT"}
        /\ IsDataTarget(Asked)
        /\ KeyOf(Asked) \notin Vocabulary)
       => /\ last.kind = "resp"
          /\ last.resp.code = 404
          /\ last.resp.body = ErrorBody("unknown key")
          /\ ~last.changed
    /\ \A w \in Workers :
          (wpc[w].st = "db" /\ IsDataTarget(Catalog[sock[fdtab[wpc[w].fd]].req]))
             => KeyOf(Catalog[sock[fdtab[wpc[w].fd]].req]) \in Vocabulary

\* A PUT of /v1/data/Profile has just been answered 404.
UnknownKeySeen ==
    /\ last.req \in Ids({PutKeyCase})
    /\ last.resp.code = 404
    /\ last.resp.body = ErrorBody("unknown key")

\* C6: after bootstrap on a fresh store and before any successful PUT of the
\* key, GET /v1/data/profile is answered 200 with body {} and GET of every
\* other vocabulary key 200 with body []; bootstrap on a populated store
\* overwrites no value it finds.
Defaults ==
    /\ (/\ last.kind = "get"
        /\ OnValidKey(Asked, "GET")
        /\ env.found = EmptyStore
        /\ ~lastPut[KeyOf(Asked)].set)
       => /\ last.resp.code = 200
          /\ last.resp.body = SpecDefault(KeyOf(Asked))
    /\ phase = "serve"
       => \A k \in DOMAIN env.found : lastPut[k].set \/ store[k] = env.found[k]

\* A GET of profile on a fresh store, before any PUT of profile, answered {}.
DefaultsSeen ==
    /\ last.kind = "get"
    /\ KeyOf(Asked) = "profile"
    /\ env.found = EmptyStore
    /\ ~lastPut["profile"].set
    /\ last.resp.body = "{}"

\* C7: a connection receives at most one response: in the step that writes a
\* response the worker closes the connection and frees its slot and is back
\* waiting for events, so the bytes of a pipelined second request are never
\* parsed or answered.
OneResponse ==
    /\ Answered
       => /\ conns[last.w][last.fd] = NoConn
          /\ fdtab[last.fd] = 0
          /\ sock[last.c].st = "free"
          /\ wpc[last.w].st = "wait"
    /\ \A w \in Workers, fd \in Fds :
          conns[w][fd] # NoConn => fdtab[fd] # 0 /\ sock[fdtab[fd]].st = "open"
    /\ (Answered /\ Asked.tail # "")
       => /\ last.kind = (IF Asked.method = "GET" THEN "get" ELSE "put")
          /\ last.key = KeyOf(Asked)
          /\ last.changed => (Asked.method = "PUT" /\ store[KeyOf(Asked)] = Asked.body)

\* The GET that a pipelined PUT follows has been answered, and the store holds
\* what it held.
OneResponseSeen ==
    /\ last.req \in Ids({GetThenPut})
    /\ last.resp.code = 200
    /\ ~last.changed
    /\ store["profile"] # "[1]"

\* C8: every response has a header that contains 'Connection: close' and a
\* Content-Length whose value is the number of body bytes that follow, 0 for
\* the 204 reply.
Framing ==
    Answered
    => /\ FieldOf(last.resp.header, "Connection") = "close"
       /\ FieldOf(last.resp.header, "Content-Length") # ""
       /\ NatOf(FieldOf(last.resp.header, "Content-Length")) = Len(last.resp.body)
       /\ last.resp.code = 204 => Len(last.resp.body) = 0

\* A 200 reply with a body of seven bytes.
FramingSeen ==
    /\ last.resp.code = 200
    /\ Len(last.resp.body) = 7
    /\ FieldOf(last.resp.header, "Content-Length") = "7"

\* C9: a PUT on a valid key whose Content-Length is negative or greater than
\* 65536 minus the header length is answered 400 'invalid content length' as
\* soon as the header terminator is buffered, without waiting for the body and
\* without touching the store.
LengthRefusedAtOnce ==
    /\ (/\ Answered
        /\ OnValidKey(Asked, "PUT")
        /\ LengthRefused(Asked))
       => /\ last.kind = "resp"
          /\ last.resp.code = 400
          /\ last.resp.body = ErrorBody("invalid content length")
          /\ ~last.changed
    /\ \A w \in Workers, fd \in Fds :
          (/\ conns[w][fd] # NoConn
           /\ OnValidKey(Catalog[sock[fdtab[fd]].req], "PUT")
           /\ LengthRefused(Catalog[sock[fdtab[fd]].req]))
          => /\ conns[w][fd].len < Catalog[sock[fdtab[fd]].req].hlen
             /\ ~(wpc[w].st = "db" /\ wpc[w].fd = fd)

\* C10: a PUT on a valid key with a valid JSON body whose header length plus
\* Content-Length is at most 65536, all of it delivered, is answered 204 and
\* its body becomes the stored value when the store step succeeds and no
\* allocation fails; a request of exactly 65536 bytes is not rejected for its
\* size.
FittingPutAccepted ==
    (/\ Answered
     /\ last.kind # "oom"
     /\ ~last.fails
     /\ OnValidKey(Asked, "PUT")
     /\ BodyAsAnnounced(Asked)
     /\ IsJson(Asked.body)
     /\ Asked.hlen + Len(Asked.body) <= 65536)
    => /\ last.resp.code = 204
       /\ store[KeyOf(Asked)] = Asked.body

---------------------------------------------------------------------------
(* The requests and the replies as the specification words them.           *)

HasTerminator(r) == \E i \in Probe(r.w, 1, WLen(r.w) - 3) : Sub(r.w, i, i + 3) = "\r\n\r\n"
\* The parser handled the request: it answered, or it called a store handler.
Parsed == last.kind \in {"resp", "get", "put"}
\* The connection of the event that led here is closed: slot, descriptor, socket.
Closed ==
    /\ conns[last.w][last.fd] = NoConn
    /\ fdtab[last.fd] = 0
    /\ sock[last.c].st = "free"
RepliedWith(code, body) ==
    /\ last.resp.code = code
    /\ last.resp.body = body
HealthBody == "{\"status\":\"ok\"}"
IsHealth(r) == r.method = "GET" /\ r.target = "/health"
\* A request line of a method of at most 7 characters and a target of at most
\* 511 characters.
LineAsSpecified(r) ==
    /\ 1 <= Len(r.method) /\ Len(r.method) <= 7
    /\ 1 <= Len(r.target) /\ Len(r.target) <= 511

\* C11: a connection whose buffered bytes reach 65536 is answered 413
\* 'request too large' and closed without any store access, whatever it
\* sent; a 413 is sent only when the buffered length has reached 65536 and no
\* call of the parser on the shorter prefixes has finished the request; no
\* connection ever holds 65536 buffered bytes unanswered, and no request
\* without a header terminator reaches a store handler.
CeilingAnswered ==
    /\ \A w \in Workers, fd \in Fds : conns[w][fd].len < 65536
    /\ (last.kind # "none" /\ last.len >= 65536)
       => /\ last.kind = "413"
          /\ RepliedWith(413, ErrorBody("request too large"))
          /\ ~last.changed
          /\ Closed
    /\ last.resp.code = 413
       => /\ last.len = 65536
          /\ \A n \in ParseLens(last.req) :
                n < last.len => \A d \in Decisions[last.req][n] : d.done = 0
    /\ \A w \in Workers :
          wpc[w].st = "db" => HasTerminator(Catalog[sock[fdtab[wpc[w].fd]].req])

\* 65536 bytes without a header terminator have just been answered 413.
CeilingSeen ==
    /\ last.kind = "413"
    /\ Asked = Endless
    /\ ~HasTerminator(Asked)
    /\ last.len = 65536
    /\ last.resp.code = 413

\* C12: a GET /health is answered 200 with the body {"status":"ok"} by the
\* parser itself in every state: whatever the store holds, and while another
\* worker is in a store step; no store handler is called for it and the store
\* is left as it is.
HealthAnswered ==
    /\ (last.kind # "none" /\ IsHealth(Asked))
       => /\ last.kind = "resp"
          /\ RepliedWith(200, HealthBody)
          /\ ~last.changed
          /\ ~last.fails
    /\ \A w \in Workers :
          wpc[w].st = "db" => ~IsHealth(Catalog[sock[fdtab[wpc[w].fd]].req])

\* A GET /health has just been answered 200 while another worker is in the
\* store step of a PUT and the stored profile is not the default.
HealthSeen ==
    /\ last.kind = "resp"
    /\ IsHealth(Asked)
    /\ RepliedWith(200, HealthBody)
    /\ \E w \in Workers \ {last.w} : wpc[w].st = "db" /\ wpc[w].op = "put"
    /\ store["profile"] # SpecDefault("profile")

\* C13: a request whose request line gives a method and a target is handled
\* by the first rule that matches, in this order: GET /health, 200; a target
\* outside /v1/data/, 404 'not found'; a key outside the vocabulary (the empty
\* key too, and for every method), 404 'unknown key'; GET, the fetch; PUT, the
\* PUT handling; any other method, compared case-sensitively, 405 'method not
\* allowed'.
DispatchOrder ==
    (Parsed /\ LineAsSpecified(Asked))
    => IF IsHealth(Asked)
       THEN last.kind = "resp" /\ RepliedWith(200, HealthBody)
       ELSE IF ~IsDataTarget(Asked)
       THEN last.kind = "resp" /\ RepliedWith(404, ErrorBody("not found"))
       ELSE IF KeyOf(Asked) \notin Vocabulary
       THEN last.kind = "resp" /\ RepliedWith(404, ErrorBody("unknown key"))
       ELSE IF Asked.method = "GET"
       THEN last.kind = "get" /\ last.key = KeyOf(Asked)
       ELSE IF Asked.method = "PUT"
       THEN \/ last.kind = "put" /\ last.key = KeyOf(Asked)
            \/ last.kind = "resp" /\ RepliedWith(400, ErrorBody("invalid content length"))
       ELSE last.kind = "resp" /\ RepliedWith(405, ErrorBody("method not allowed"))

\* A DELETE of the empty key has just been answered 404 'unknown key', not 405.
DispatchSeen ==
    /\ last.kind = "resp"
    /\ Asked = DeleteEmptyKey
    /\ RepliedWith(404, ErrorBody("unknown key"))

\* C14: a request whose request line is not a method of at most 7 characters
\* followed by a target of at most 511 characters (no target, a longer
\* method, a longer target) is answered 400 'malformed request line', whatever
\* follows the request line and the header terminator.
MalformedLineRefused ==
    (Parsed /\ Asked.method # "" /\ ~LineAsSpecified(Asked))
    => /\ last.kind = "resp"
       /\ RepliedWith(400, ErrorBody("malformed request line"))

\* The length a request announces: the number its Content-Length header
\* gives, 0 when it has none or gives no number.
LengthAnnounced(r) == IF r.cl = "" THEN 0 ELSE NatOf(r.cl)

\* C15: the body handed to the PUT handler has the length read_content_length
\* returned, which is the decimal integer after the colon of the request's
\* first Content-Length header line, in any letter case and after any white
\* space, and 0 when the header block has no such line or the line gives no
\* number; the bytes after the header terminator play no part.  (Lengths of
\* at most five digits, which an int holds.)
LengthAsAnnounced ==
    (/\ last.kind = "put"
     /\ Len(Asked.cl) <= 5
     /\ (Asked.cl # "" => SubSeq(Asked.cl, 1, 1) # "-"))
    => Len(last.payload) = LengthAnnounced(Asked)

\* C16: when the upsert step of a PUT fails, the request is answered 500
\* 'database error', its connection is closed and the store is unchanged.
UpsertFailureReported ==
    (last.kind = "put" /\ last.fails)
    => /\ RepliedWith(500, ErrorBody("database error"))
       /\ ~last.changed
       /\ Closed

\* The upsert step of a PUT of valid JSON that differs from the stored value
\* has just failed.
UpsertFailureSeen ==
    /\ last.kind = "put"
    /\ last.fails
    /\ IsJson(last.payload)
    /\ store[last.key] # last.payload
    /\ last.resp.code = 500

\* C17: when the fetch step of a GET on a valid key fails, the request is
\* answered 500 'database error'; a GET answers with the key's default only
\* when the store holds no other value for the key.
FetchFailureReported ==
    /\ (last.kind = "get" /\ last.fails)
       => RepliedWith(500, ErrorBody("database error"))
    /\ (last.kind = "get" /\ last.resp.code = 200 /\ last.resp.body = SpecDefault(last.key))
       => (last.key \in DOMAIN store => store[last.key] = SpecDefault(last.key))

\* C18: a worker whose initialization succeeded stays in its event loop: it
\* is waiting for events, in the read loop of a connection or in a store
\* step, and after every event it handled, faults included (a wait or accept
\* error, a hangup, the end of the peer's stream, a malformed or refused
\* request, a 413, a failed allocation, a failed store step), it waits for
\* events again.
LoopGoesOn ==
    /\ \A w \in Workers : wpc[w].st \in {"wait", "read", "db"}
    /\ last.kind # "none" => wpc[last.w] = Waiting

\* A worker has just answered 500 'oom' to a failed allocation and waits for
\* events again.
LoopGoesOnSeen ==
    /\ last.kind = "oom"
    /\ last.resp.code = 500
    /\ wpc[last.w] = Waiting

\* The workers that hold a slot for descriptor fd.
Holders(fd) == {w \in Workers : conns[w][fd] # NoConn}

\* Every open connection is in the slot array of exactly one worker.
OwnedSlots ==
    /\ \A fd \in Fds : Cardinality(Holders(fd)) <= 1
    /\ \A fd \in Fds : fdtab[fd] # 0 <=> Holders(fd) # {}
    /\ \A c \in ConnIds : sock[c].st = "open" <=> \E fd \in Fds : fdtab[fd] = c
    /\ \A w \in Workers : wpc[w].st \in {"read", "db"} => conns[w][wpc[w].fd] # NoConn

\* A step that changes the slot or the descriptor of a connection, answers it
\* or closes it, is a step of the worker that holds its slot.
OwnerSteps ==
    /\ \A w \in Workers, fd \in Fds :
          (conns[w][fd] # NoConn /\ (conns'[w][fd] # conns[w][fd] \/ fdtab'[fd] # fdtab[fd]))
          => \/ last'.kind # "none" /\ last'.w = w /\ last'.fd = fd
             \/ wpc'[w].st \in {"read", "db"} /\ wpc'[w].fd = fd
    /\ last'.kind # "none"
       => /\ conns[last'.w][last'.fd] # NoConn
          /\ fdtab[last'.fd] = last'.c
          /\ conns'[last'.w][last'.fd] = NoConn

\* C19: every accepted connection is in the slot array of exactly one worker
\* and no two workers hold a slot for the same descriptor; a worker in the
\* read loop or in a store step of a descriptor holds its slot; and a
\* connection's slot and descriptor change, and a connection is answered or
\* closed, only in a step of the worker that holds its slot.
OneOwner == []OwnedSlots /\ [][OwnerSteps]_vars

\* Two connections are open at once, each in the slot array of another worker.
OneOwnerSeen ==
    \E v, w \in Workers, f, g \in Fds :
        /\ v # w /\ f # g
        /\ conns[v][f] # NoConn /\ conns[w][g] # NoConn
        /\ conns[v][g] = NoConn /\ conns[w][f] = NoConn

\* A text of decimal digits.
IsNumber(t) ==
    /\ t # ""
    /\ \A i \in 1 .. Len(t) :
          SubSeq(t, i, i) \in {"0", "1", "2", "3", "4", "5", "6", "7", "8", "9"}
Clamped(n, lo, hi) == IF n < lo THEN lo ELSE IF n > hi THEN hi ELSE n

\* C20: once main has started its workers, their number is the configured
\* value clamped into 1 .. 1024 (1 for a value below 1, 1024 for a value above
\* 1024), and 64 when no value is configured.
WorkersClamped ==
    (sup.pc = "join" /\ (sup.workers_env.set => IsNumber(sup.workers_env.text)))
    => sup.started = IF sup.workers_env.set
                     THEN Clamped(NatOf(sup.workers_env.text), 1, 1024)
                     ELSE 64

\* The index of the first colon of t, 0 when it has none.
ColonAt(t) ==
    LET at == {i \in 1 .. Len(t) : SubSeq(t, i, i) = ":"}
    IN  IF at = {} THEN 0 ELSE CHOOSE i \in at : \A j \in at : i <= j
\* The number a text of decimal digits names, 65536 standing for all above.
PortOf(p) == IF Len(p) <= 5 THEN NatOf(p) ELSE 65536
\* t is host:port, the host not empty and shorter than host_len, the port a
\* decimal number in 1 .. 65535.
IsHostPort(t, host_len) ==
    LET k == ColonAt(t)
        p == SubSeq(t, k + 1, Len(t))
    IN  /\ k > 1 /\ k - 1 < host_len
        /\ IsNumber(p) /\ PortOf(p) \in 1 .. 65535

\* C21: parse_bind_addr returns 0 exactly when its input is host:port with a
\* host that is not empty and shorter than host_len and a port in 1 .. 65535,
\* and then host and port hold the two parts; so it does not return 0 for port
\* 0, for a port above 65535, or for an input with no colon and port.
BindParsed ==
    sup.pc \notin {"config", "bind"}
    => LET t == sup.bind.text
           k == ColonAt(t)
       IN  /\ sup.bind.ret = 0 <=> IsHostPort(t, 128)
           /\ sup.bind.ret = 0
              => /\ sup.bind.host = SubSeq(t, 1, k - 1)
                 /\ sup.bind.port = PortOf(SubSeq(t, k + 1, Len(t)))

\* The slot of connection c, NoConn when no worker holds one.
SlotOf(c) ==
    IF \E w \in Workers, fd \in Fds : fdtab[fd] = c /\ conns[w][fd] # NoConn
    THEN LET p == CHOOSE p \in Workers \X Fds : fdtab[p[2]] = c /\ conns[p[1]][p[2]] # NoConn
         IN  conns[p[1]][p[2]]
    ELSE NoConn
\* The received bytes are the buffered ones: the buffer holds, from its first
\* byte on, every byte recv has returned on the connection.
BufferIsStream ==
    /\ \A c \in ConnIds : sock[c].got = SlotOf(c).len /\ sock[c].got <= sock[c].avail
    /\ last.kind \in {"resp", "get", "put"} => last.len <= WLen(Asked.w)
\* A read loop that ends on would-block leaves the slot installed, the
\* descriptor open, and the buffered length as it was; the capacity is as it
\* was but for the doubling of a full buffer that precedes the recv.
WouldBlockSteps ==
    \A w \in Workers :
        LET fd == wpc[w].fd
        IN  (wpc[w].st = "read" /\ wpc'[w].st = "wait" /\ last'.kind = "none")
            => /\ conns'[w][fd] # NoConn
               /\ conns'[w][fd].len = conns[w][fd].len
               /\ conns'[w][fd].cap >= conns[w][fd].cap
               /\ conns'[w][fd].cap # conns[w][fd].cap => conns[w][fd].len = conns[w][fd].cap
               /\ fdtab' = fdtab /\ sock' = sock

\* C22: when recv reports would-block the connection stays registered with its
\* slot, buffered length and capacity as they were, and the buffer is never
\* reset: at every parser call it holds every byte received so far on the
\* connection, in order.
BufferKept == []BufferIsStream /\ [][WouldBlockSteps]_vars

\* A worker went back to wait with part of a request buffered and nothing more
\* to read.
BufferKeptSeen ==
    \E w \in Workers, fd \in Fds :
        /\ wpc[w].st = "wait" /\ conns[w][fd] # NoConn
        /\ conns[w][fd].len > 0
        /\ conns[w][fd].len = sock[fdtab[fd]].avail
        /\ conns[w][fd].len < WLen(Catalog[sock[fdtab[fd]].req].w)

\* A Content-Length the parser accepts: a decimal number that, with the header
\* block, fits the 64 KiB of a request.
LengthAccepted(r) ==
    IsNumber(r.cl) /\ Len(r.cl) <= 5 /\ NatOf(r.cl) <= 65536 - r.hlen
\* The first Content-Length bytes after the header terminator.
BodyFramed(r) == SubSeq(r.body \o r.tail, 1, NatOf(r.cl))

\* C23: for a PUT on a valid key with an acceptable Content-Length, nothing is
\* answered by the parser and the store is not touched while fewer than
\* Content-Length bytes follow the header terminator; once they are buffered,
\* the text that is validated and stored is exactly the first Content-Length
\* bytes after the terminator, whatever follows them.
BodyExactlyFramed ==
    /\ \A w \in Workers, fd \in Fds :
          LET r == Catalog[sock[fdtab[fd]].req]
          IN  (/\ conns[w][fd] # NoConn
               /\ OnValidKey(r, "PUT") /\ LengthAccepted(r)
               /\ conns[w][fd].len < r.hlen + NatOf(r.cl))
              => ~(wpc[w].st = "db" /\ wpc[w].fd = fd)
    /\ (Parsed /\ OnValidKey(Asked, "PUT") /\ LengthAccepted(Asked))
       => /\ last.kind = "put"
          /\ last.len >= Asked.hlen + NatOf(Asked.cl)
          /\ last.payload = BodyFramed(Asked)
          /\ ~last.fails => (last.resp.code = 204 <=> IsJson(BodyFramed(Asked)))
          /\ last.resp.code = 204 => store[KeyOf(Asked)] = BodyFramed(Asked)
          /\ last.resp.code # 204 => ~last.changed

\* The step of worker w closes the connection on descriptor fd as kind says,
\* with no response, no recv and no change of the store.
ClosedUnanswered(w, fd, kinds) ==
    /\ last'.kind \in kinds /\ last'.w = w /\ last'.fd = fd
    /\ last'.resp = NoResp
    /\ last'.len = conns[w][fd].len
    /\ store' = store /\ lastPut' = lastPut
    /\ conns'[w][fd] = NoConn /\ fdtab'[fd] = 0 /\ sock'[fdtab[fd]].st = "free"
HangupSteps ==
    \A w \in Workers, fd \in Fds :
        /\ (/\ wpc[w].st = "wait" /\ conns[w][fd] # NoConn
            /\ sock[fdtab[fd]].fin
            /\ conns'[w][fd] # conns[w][fd])
           => ClosedUnanswered(w, fd, {"hup"})
        /\ (/\ wpc[w].st = "read" /\ wpc[w].fd = fd
            /\ sock[fdtab[fd]].fin /\ sock[fdtab[fd]].got = sock[fdtab[fd]].avail
            /\ wpc'[w] # wpc[w])
           => ClosedUnanswered(w, fd, {"eof", "err"})

\* C24: a client event with the error/hangup flag closes the connection with
\* no recv and no response, unread bytes or not; a recv that returns 0 or
\* fails with an error other than would-block or interrupt closes it with no
\* response and no change of the store.
HangupClosesSilently ==
    /\ [](last.kind \in {"hup", "eof", "err"}
          => (last.resp = NoResp /\ ~last.changed /\ Closed))
    /\ [][HangupSteps]_vars

\* The hangup flag closed a connection whose request bytes had all arrived
\* and had not all been read.
HangupClosesSilentlySeen ==
    /\ last.kind = "hup"
    /\ Asked.hup = WLen(Asked.w)
    /\ last.len < WLen(Asked.w)
    /\ Closed
\* recv failed, or returned 0, in a read loop.
RecvFailureSeen == last.kind \in {"eof", "err"} /\ Closed

\* Every slot belongs to an open descriptor of an accepted connection.
SlotsOpen ==
    \A w \in Workers, fd \in Fds :
        conns[w][fd] # NoConn => (fdtab[fd] # 0 /\ sock[fdtab[fd]].st = "open")
\* What a step makes of the connections that leave the listen queue.
AcceptSteps ==
    LET taken == {c \in ConnIds : sock[c].st = "queued" /\ sock'[c].st # "queued"}
    IN  taken # {}
        => /\ \A d \in ConnIds : sock'[d].st # "queued"
           /\ last'.resp = NoResp /\ store' = store
           /\ \E w \in Workers :
                /\ wpc[w].st = "wait"
                /\ \A c \in taken :
                     \/ /\ sock'[c].st = "open"
                        /\ \E fd \in Fds :
                             /\ fdtab[fd] = 0 /\ fdtab'[fd] = c
                             /\ conns'[w][fd] = NewConn
                             /\ \A v \in Workers \ {w} : conns'[v][fd] = NoConn
                        /\ \A r \in AcceptOutcomes : <<c, r>> \notin last'.refused
                     \/ /\ sock'[c] = FreeSock
                        /\ \A fd \in Fds : fdtab'[fd] # c
                        /\ \E r \in AcceptOutcomes \ {"installed"} : <<c, r>> \in last'.refused
                /\ \A fd \in Fds : fdtab'[fd] = 0 => conns'[w][fd] = NoConn

BufferBounds ==
    /\ \A w \in Workers, fd \in Fds :
          conns[w][fd] # NoConn
          => /\ conns[w][fd].cap \in {8192, 16384, 32768, 65536}
             /\ 0 <= conns[w][fd].len /\ conns[w][fd].len <= conns[w][fd].cap
             /\ conns[w][fd].len < 65536
    /\ \A w \in Workers :
          wpc[w].st = "db"
          => /\ conns[w][wpc[w].fd] # NoConn
             /\ Catalog[sock[fdtab[wpc[w].fd]].req].hlen + Len(wpc[w].payload)
                   <= conns[w][wpc[w].fd].len
    /\ last.kind # "none" => last.len <= 65536
CapacitySteps ==
    \A w \in Workers, fd \in Fds :
        (conns[w][fd] # NoConn /\ conns'[w][fd] # NoConn)
        => /\ conns'[w][fd].cap >= conns[w][fd].cap
           /\ conns'[w][fd].len >= conns[w][fd].len
           /\ conns'[w][fd].len > conns[w][fd].len => conns'[w][fd].len <= conns'[w][fd].cap

\* C26: for every live connection in every reachable state 0 <= len <= cap,
\* cap is 8192, 16384, 32768 or 65536 and never decreases, and len < 65536
\* between events; so the bytes recv writes, the terminator at index len and
\* the terminator at header_len + content_length all lie in the cap + 1
\* allocated bytes.
BufferInBounds == []BufferBounds /\ [][CapacitySteps]_vars

\* A buffer grown to 65536 bytes holds more than 32768, and a worker has
\* framed a body in a buffer it had to grow.
BufferInBoundsSeen ==
    \E w \in Workers, fd \in Fds :
        /\ conns[w][fd].cap = 65536
        /\ conns[w][fd].len > 32768
        /\ wpc[w].st = "db" /\ wpc[w].fd = fd /\ wpc[w].op = "put"

RetrySteps ==
    /\ (snd'.res = "eintr" /\ snd' # snd)
       => /\ snd'.naps = snd.naps /\ snd'.retry = snd.retry
          /\ snd'.sent = snd.sent /\ snd'.pc = snd.pc
    /\ (snd.pc \in {"header", "body"} /\ snd'.res = "eagain" /\ snd' # snd)
       => IF snd.naps < 4
          THEN snd'.naps = snd.naps + 1 /\ snd'.pc = snd.pc /\ snd'.sent = snd.sent
          ELSE snd'.naps = snd.naps /\ snd'.rets = Append(snd.rets, -1)

\* The nanosleep calls of one response, and what a failed send ends.
WriterBounds ==
    /\ snd.naps <= 4
    /\ snd.res \in {"zero", "error"} => snd.rets[Len(snd.rets)] = -1

\* C27: writing one response, header then body, the writer sleeps and tries
\* again on would-block at most four times in all and gives up on the next
\* would-block; an interrupted send is tried again and not counted; a send
\* that returns 0 or fails otherwise ends the write.
WriterRetriesBounded == []WriterBounds /\ [][RetrySteps]_vars

\* A step that changes the slot of descriptor fd in worker w, other than an
\* accept loop, leaves every other slot, descriptor and socket as it was.
FrameSteps ==
    \A w \in Workers, fd \in Fds :
        (/\ conns'[w][fd] # conns[w][fd]
         /\ \A c \in ConnIds : sock[c].st = "queued" => sock'[c].st = "queued")
        => /\ \A v \in Workers, g \in Fds :
                 (v # w \/ g # fd) => conns'[v][g] = conns[v][g]
           /\ \A g \in Fds \ {fd} : fdtab'[g] = fdtab[g]
           /\ \A c \in ConnIds \ {fdtab[fd]} : sock'[c] = sock[c]
           /\ last'.kind # "none" => (last'.w = w /\ last'.fd = fd)

\* C28: the handling of an event for one connection, every failure path
\* included, changes the slot, buffer and registration of that connection only:
\* slot, buffered length, capacity and registration of every other connection
\* of the worker are as they were.
OthersUntouched == [][FrameSteps]_vars

\* A 413 or an out-of-memory 500 on one connection of a worker that holds
\* another connection with part of a request buffered.
OthersUntouchedSeen ==
    /\ last.kind \in {"413", "oom"}
    /\ \E g \in Fds \ {last.fd} :
          /\ conns[last.w][g].len > 0
          /\ sock[fdtab[g]].st = "open"

\* What the parser makes of the whole byte string of request i, delivered in
\* one piece.
WholeDecisions(i) == Decisions[i][WLen(Catalog[i].w)]
\* The event that led here is what decision d asks for.
AsDecided(d) ==
    IF d.op = "resp" THEN last.kind = "resp" /\ last.resp = d.resp
    ELSE /\ last.kind = d.op
         /\ last.key = d.key
         /\ last.payload = d.payload

\* C29: response and store effect of a connection depend on the bytes the
\* client sent, not on how recv split them: a client that keeps the connection
\* open and sends fewer than 65536 bytes (here: at most the 8192 one recv can
\* take into a fresh buffer) gets from every split what it gets when all its
\* bytes arrive in one piece.
ChunkingIrrelevant ==
    (/\ Parsed
     /\ Asked.hup = -1
     /\ WLen(Asked.w) <= CONN_INIT_BUF)
    => \E d \in WholeDecisions(last.req) : AsDecided(d)

\* The request is whole: a terminated header block and, after it, at least
\* the bytes its Content-Length announces; fewer than 65536 bytes in all.
Complete(r) ==
    /\ r.hlen > 0 /\ HasTerminator(r)
    /\ WLen(r.w) < 65536
    /\ (IsNumber(r.cl) /\ Len(r.cl) <= 5) => NatOf(r.cl) <= Len(r.body \o r.tail)
    /\ Len(r.cl) <= 5
\* Connection c is accepted and its client sends a whole request and does not
\* hang up.
Delivering(c) ==
    /\ sock[c].st = "open"
    /\ Complete(Catalog[sock[c].req])
    /\ Catalog[sock[c].req].hup = -1
\* Connection c has just been answered and is closed.
Served(c) ==
    /\ last.kind # "none" /\ last.c = c
    /\ Answered
    /\ Closed

\* C30: with workers scheduled fairly and a store that grants its lock in the
\* end, every accepted connection on which a whole request of fewer than 65536
\* bytes arrives, and whose peer neither hangs up nor fails, is answered in
\* the end, once, and then closed.
EveryRequestServed ==
    /\ [](Answered => Closed)
    /\ \A c \in ConnIds : Delivering(c) ~> Served(c)

\* A request that arrived in three segments has been answered.
EveryRequestServedSeen ==
    /\ last.kind = "put" /\ Asked = PutSlow
    /\ Served(last.c)

\* The step changes a stored row while the server is serving.
StoreSteps == phase = "serve" /\ store' # store

\* The step is the end of handle_put_data's 204 path for the request r of the
\* answered connection: a PUT on a valid key, all the announced body bytes
\* buffered, that body valid JSON, the upsert step done; and no row but that
\* key's differs after it.
OnPutPath ==
    LET r == Catalog[last'.req]
    IN  /\ last'.kind = "put"
        /\ last'.resp.code = 204
        /\ ~last'.fails
        /\ OnValidKey(r, "PUT")
        /\ last'.key = KeyOf(r)
        /\ LengthAccepted(r)
        /\ last'.len >= r.hlen + NatOf(r.cl)
        /\ IsJson(BodyFramed(r))
        /\ DOMAIN store' = DOMAIN store
        /\ \A k \in DOMAIN store \ {last'.key} : store'[k] = store[k]

\* C31: the store changes only at the end of the handling of a PUT on a valid
\* key whose complete body passed JSON validation and whose upsert step
\* succeeded, the path that ends in the 204 reply, and then only the row of
\* that key changes; a GET, /health, every 4xx and 5xx outcome, a PUT whose
\* body has not fully arrived and every close of a connection leave all rows
\* as they were.
StoreChangesOnlyOn204 == [][StoreSteps => OnPutPath]_vars

\* Descriptor fd is an open client connection that worker w accepted and that
\* is registered in w's queue.
OwnedBy(w, fd) ==
    /\ fdtab[fd] # 0
    /\ sock[fdtab[fd]].st = "open"
    /\ qfd.owner[fd] = w

\* C32: for each worker and descriptor, the worker's slot is non-null if and
\* only if the descriptor is an open client connection accepted by that worker
\* and registered in its queue; no handling of an event closes a descriptor
\* that is closed already or one of another worker, or takes the branch for a
\* ready descriptor with a NULL slot: every event a worker has yet to handle
\* is the listening descriptor's or that of a descriptor whose slot it holds,
\* also after its accept loop has reused, within the same batch, the number
\* of a descriptor it closed.
SlotsAreConnections ==
    /\ \A w \in Workers, fd \in Fds : conns[w][fd] # NoConn <=> OwnedBy(w, fd)
    /\ qfd.faults = {}
    /\ \A w \in Workers : \A i \in DOMAIN qfd.fds[w] :
          LET e == qfd.fds[w][i]
          IN  e.fd # 0 => OwnedBy(w, e.fd) /\ conns[w][e.fd] # NoConn

\* A worker's accept loop has given a new connection the number of a
\* descriptor the worker closed earlier in the same batch.
SlotsAreConnectionsSeen ==
    \E w \in Workers : \E fd \in qfd.gone[w] :
        /\ conns[w][fd] = NewConn
        /\ OwnedBy(w, fd)
        /\ qfd.fds[w] = <<>>

\* The bytes the socket has taken of the response being written: those of the
\* header, in order, then those of the body, in order.
Written ==
    SubSeq(snd.resp.header, 1, snd.out.header) \o SubSeq(snd.resp.body, 1, snd.out.body)
IsPrefix(s, t) == Len(s) <= Len(t) /\ SubSeq(t, 1, Len(s)) = s

\* C33: the bytes written to a connection's socket are always a prefix of the
\* response header followed by the response body: when the writing of the
\* header was given up part-way, no byte of the body is written after it.
WrittenIsPrefix ==
    /\ IsPrefix(Written, snd.resp.header \o snd.resp.body)
    /\ (snd.rets # <<>> /\ snd.rets[1] = -1) => snd.out.body = 0

\* The bytes recv is asked for in the next turn of the read loop on a
\* connection: cap - len, after the growth that a full buffer below 64 KiB gets.
RecvRoom(conn) ==
    (IF conn.len = conn.cap /\ conn.cap < REQ_BUF_SIZE THEN NextCap(conn.cap) ELSE conn.cap)
    - conn.len

\* C34: every recv on a client is called with at least one free byte in the
\* buffer, len < cap at the call, so that recv returns 0 only when the peer
\* has closed, after all the bytes it sent have been read, and never because
\* the buffer was full.
RecvHasRoom ==
    /\ \A w \in Workers, fd \in Fds : conns[w][fd] # NoConn => RecvRoom(conns[w][fd]) > 0
    /\ last.kind = "eof" => (Asked.hup # -1 /\ last.len = Asked.hup)

\* A buffer is full at 32768 bytes: the next turn of the read loop grows it
\* before it calls recv.
RecvHasRoomSeen ==
    \E w \in Workers, fd \in Fds :
        /\ conns[w][fd].len = conns[w][fd].cap
        /\ conns[w][fd].cap = 4 * CONN_INIT_BUF
        /\ wpc[w].st = "read" /\ wpc[w].fd = fd

\* Worker w, in the read loop after try_process_client returned 0, makes the
\* next turn.
Turn(w) == wpc[w].st = "read" /\ (wpc'[w] # wpc[w] \/ conns'[w] # conns[w])
\* The length buffered on the event's connection after the step of worker w,
\* which has closed the connection or not.
After(w) ==
    IF last'.kind # "none" /\ last'.w = w THEN last'.len
    ELSE conns'[w][wpc[w].fd].len
\* The first turn of an event's read loop that goes on to a second starts
\* from the buffered length and has added to it.
Entered(w) ==
    (wpc[w].st = "wait" /\ wpc'[w].st = "read")
    => /\ wpc'[w].from = conns[w][wpc'[w].fd].len
       /\ conns'[w][wpc'[w].fd].len > wpc'[w].from
\* A turn that does not leave the read loop has added to the buffered length,
\* which stays below 65536; the turn that leaves it has not brought the length
\* above 65536.
Progress(w) ==
    Turn(w) => /\ wpc'[w].st = "read"
                  => /\ After(w) > conns[w][wpc[w].fd].len
                     /\ After(w) < REQ_BUF_SIZE
                     /\ wpc'[w].from = wpc[w].from
               /\ After(w) >= conns[w][wpc[w].fd].len
               /\ After(w) <= REQ_BUF_SIZE

\* C35 as stated: the handling of one read-ready event ends, each turn of its
\* read loop leaving the loop or adding to the buffered length, which 65536
\* bounds, and the event consumes fewer than 65536 bytes.
ReadLoopEndsBelow ==
    [][\A w \in Workers :
          /\ Entered(w) /\ Progress(w)
          /\ Turn(w) => After(w) - wpc[w].from < REQ_BUF_SIZE]_vars

\* C35: the handling of one read-ready event ends: each turn of its read loop
\* leaves the loop or adds to the buffered length, which 65536 bounds, and the
\* event consumes at most 65536 bytes less those buffered when it began: 65536
\* when it is the connection's first.
ReadLoopEnds ==
    [][\A w \in Workers :
          /\ Entered(w) /\ Progress(w)
          /\ Turn(w) => After(w) - wpc[w].from <= REQ_BUF_SIZE - wpc[w].from]_vars

\* The first event of a connection has taken 65536 bytes, in four turns of the
\* read loop, and was answered 413.
ReadLoopEndsSeen ==
    /\ last.kind = "413" /\ Asked = Put64K
    /\ last.len = REQ_BUF_SIZE
    /\ sock[last.c].st = "free"

===========================================================================
